---- MODULE Spec2Model ----
(***************************************************************************)
(* Function-call interpretation of safra36/functiongemma-test:             *)
(* the intent extractors (regular expressions over the model's output),    *)
(* the dispatch table and executors, and the turn of the three pipelines   *)
(* (main.py, main_windows.py, main_finetuned.py).                          *)
(*                                                                         *)
(* Text is a sequence of one-character strings, so that the regular        *)
(* expressions are matched character by character as the re engine does.   *)
(***************************************************************************)
EXTENDS Naturals, Integers, Sequences, FiniteSets, TLC

VARIABLES
    variant,              \* the program that runs: "main", "windows", "finetuned"
    FUNCTIONS,            \* main_finetuned.py: the names the dispatch table FUNCTIONS holds
    pc,                   \* position of the running code
    response,             \* decoded output of the selection model (RawModelOutput)
    function_names,       \* SystemDiagnosisChat.parse_function_call's return value
    ft_call,              \* FineTunedAgent.parse_function_call's return value
    func_name,            \* the name the executor is handed
    probe_outcome,        \* what the probe did in the last executor call
    result,               \* the executor's return value
    trace,                \* what the running code did since the last prompt, in order
    conversation_history, \* self.conversation_history: [role, content] entries
    gemma_model,          \* main.py: whether the summarizer was loaded (self.gemma_model)
    user_message,         \* the query of the turn
    results,              \* main.py: the turn's results list
    raw_data,             \* the text handed to the summarizer
    idx,                  \* position of the loop over function_names
    response2,            \* main_finetuned.py: decoded output of the second pass;
                          \* main.py: what the summarizer decoded (main.py:248)
    printed,              \* what the program printed for the user since the last prompt
    functions_called,     \* main.py: the returned "functions_called"
    summary,              \* the text the turn returns for display
    turns,                \* queries handled so far
    cmd,                  \* run_command: the command line it is handed
    timeout,              \* run_command: its timeout, in seconds
    process,              \* run_command: what the started command does
    load_failed,          \* which model could not be loaded at construction
    model_pass2,          \* main_finetuned.py: what self.model_pass2 is
    exit_status,          \* <<status>> once the program exited on a fatal error
    user_input,           \* the line the loop read last, trimmed; None with none
    tool_calls,           \* t5_agent.py run_agent: the (name, args) pairs parsed
    agent_output          \* t5_agent.py run_agent: the output it returns

call_vars == <<func_name, probe_outcome, result>>
turn_vars == <<conversation_history, gemma_model, user_input, user_message, results, raw_data, idx,
               response2, printed,
               functions_called, summary, turns>>
run_vars == <<cmd, timeout, process>>
start_vars == <<load_failed, model_pass2, exit_status>>
agent_vars == <<tool_calls, agent_output>>
vars == <<variant, FUNCTIONS, run_vars, start_vars, agent_vars, pc, response, function_names, ft_call, call_vars, trace, turn_vars>>

----------------------------------------------------------------------------
(* Characters and the literals of the source.                              *)

Lower == {"a","b","c","d","e","f","g","h","i","j","k","l","m",
          "n","o","p","q","r","s","t","u","v","w","x","y","z"}
Upper == {"A","B","C","D","E","F","G","H","I","J","K","L","M",
          "N","O","P","Q","R","S","T","U","V","W","X","Y","Z"}
Digit == {"0","1","2","3","4","5","6","7","8","9"}

\* \w of the re module (ASCII part)
IsWord(c) == c \in Lower \cup Upper \cup Digit \cup {"_"}
\* \s of the re module, and the characters str.strip() removes
IsSpace(c) == c \in {" ", "\t", "\n", "\r", "\f"}

START_CALL == <<"<","s","t","a","r","t","_","f","u","n","c","t","i","o","n","_","c","a","l","l",">">>
END_CALL == <<"<","e","n","d","_","f","u","n","c","t","i","o","n","_","c","a","l","l",">">>
CALL_COLON == <<"c","a","l","l",":">>
CALL_WORD == <<"c","a","l","l">>
ESCAPE == <<"<","e","s","c","a","p","e",">">>
MESSAGE_ESCAPE == <<"m","e","s","s","a","g","e",":","<","e","s","c","a","p","e",">">>
MESSAGE_QUOTED == <<"\"","m","e","s","s","a","g","e","\"">>
MESSAGE_KEY == <<"m","e","s","s","a","g","e">>

get_uptime_info == <<"g","e","t","_","u","p","t","i","m","e","_","i","n","f","o">>
get_cpu_info == <<"g","e","t","_","c","p","u","_","i","n","f","o">>
get_memory_info == <<"g","e","t","_","m","e","m","o","r","y","_","i","n","f","o">>
get_disk_info == <<"g","e","t","_","d","i","s","k","_","i","n","f","o">>
get_network_info == <<"g","e","t","_","n","e","t","w","o","r","k","_","i","n","f","o">>
get_system_info == <<"g","e","t","_","s","y","s","t","e","m","_","i","n","f","o">>
get_process_info == <<"g","e","t","_","p","r","o","c","e","s","s","_","i","n","f","o">>
get_user_info == <<"g","e","t","_","u","s","e","r","_","i","n","f","o">>
console == <<"c","o","n","s","o","l","e">>

\* Python's None: a one-element sequence no text (of one-character strings) equals
None == <<"<None>">>

\* The keys of AVAILABLE_FUNCTIONS (main.py, main_windows.py) and of FUNCTIONS
\* (main_finetuned.py): the same eight names in the three programs.
AVAILABLE_FUNCTIONS == {get_uptime_info, get_cpu_info, get_memory_info, get_disk_info,
                        get_network_info, get_system_info, get_process_info, get_user_info}

\* The probes of app.py / app_windows.py that return one (title, content) pair;
\* the others return a list of pairs.
TupleProbes == {get_uptime_info, get_memory_info}

----------------------------------------------------------------------------
(* The re engine on the patterns of the source.                            *)

\* text s has the literal lit at index i
HasAt(s, i, lit) ==
    /\ i >= 1
    /\ i + Len(lit) - 1 <= Len(s)
    /\ s[i] = lit[1]
    /\ SubSeq(s, i, i + Len(lit) - 1) = lit

\* the least index of S, d when S is empty
LeastOr(S, d) ==
    IF S = {} THEN d ELSE CHOOSE j \in S : \A k \in S : j <= k

\* first index >= i that holds no word character: where a greedy \w* stops
WordEnd(s, i) ==
    LeastOr({j \in i..Len(s) : ~IsWord(s[j])}, Len(s) + 1)

\* first index >= i that holds no whitespace: where a greedy \s* stops
SpaceEnd(s, i) ==
    LeastOr({j \in i..Len(s) : ~IsSpace(s[j])}, Len(s) + 1)

\* least index >= i where the character c stands, 0 when there is none
IndexOf(s, c, i) ==
    LeastOr({j \in i..Len(s) : s[j] = c}, 0)

\* least index >= i where the literal lit stands, 0 when there is none
Find(s, lit, i) ==
    LeastOr({j \in i..Len(s) : HasAt(s, j, lit)}, 0)

\* (?:\{[^}]*\})? and (\{.*?\})? at index i: the index after the group. The group
\* is a "{" up to the first "}" after it ([^}]* cannot cross a "}", the lazy .*?
\* under DOTALL stops at the first one); with no "{" here or no "}" after it the
\* optional group matches nothing and the index stays.
BlobEnd(s, i) ==
    IF i <= Len(s) /\ s[i] = "{" /\ IndexOf(s, "}", i + 1) # 0
    THEN IndexOf(s, "}", i + 1) + 1
    ELSE i

NoMatch == [ok |-> FALSE, name |-> None, blob |-> None, end |-> 0]

\* the match whose name stands at n..e-1 and whose optional group ends before b;
\* tail is the length of what the pattern holds after the group
Matched(s, n, e, b, tail) ==
    [ok |-> TRUE, name |-> SubSeq(s, n, e - 1),
     blob |-> IF b = e THEN None ELSE SubSeq(s, e, b - 1), end |-> b + tail]

\* (\w+)(?:\{[^}]*\})? at index n, the greedy \w+ ending before e
NameEndingAt(s, n, e) ==
    IF e = n THEN NoMatch ELSE Matched(s, n, e, BlobEnd(s, e), 0)

\* NameAndBlob whose \w+ takes every character up to the next whitespace
NameAndBlob_to_space(s, n) ==
    NameEndingAt(s, n, LeastOr({j \in n..Len(s) : IsSpace(s[j])}, Len(s) + 1))

\* call:(\w+)(?:\{[^}]*\})? anchored after its prefix ("call:" or "call" and
\* its whitespace), which ends before index n
NameAndBlob(s, n) == NameEndingAt(s, n, WordEnd(s, n))

Greatest(S) == CHOOSE x \in S : \A y \in S : y <= x

\* the ends the group can take for a name ending before e so that the end marker
\* follows: after the group, or with the group left out
BracketedEnds(s, e) == {b \in {BlobEnd(s, e), e} : HasAt(s, b, END_CALL)}

\* the name ends where the end marker can follow: the longest such name, then
\* the group before leaving it out
BracketedNamed(s, n, good) ==
    IF good = {} THEN NoMatch
    ELSE Matched(s, n, Greatest(good), Greatest(BracketedEnds(s, Greatest(good))),
                 Len(END_CALL))

\* the pattern after its opening literal, which ends before index n
BracketedAfter(s, n) ==
    BracketedNamed(s, n, {e \in (n + 1)..WordEnd(s, n) : BracketedEnds(s, e) # {}})

\* <start_function_call>call:(\w+)(?:\{[^}]*\})?<end_function_call> at index i.
\* The engine tries the longest name first, then the group, then the end marker,
\* and backtracks over the group and over the name's length.
MatchBracketed(s, i) ==
    IF HasAt(s, i, START_CALL \o CALL_COLON)
    THEN BracketedAfter(s, i + Len(START_CALL) + Len(CALL_COLON))
    ELSE NoMatch

\* call:(\w+)(?:\{[^}]*\})? at index i
MatchBare(s, i) ==
    IF HasAt(s, i, CALL_COLON) THEN NameAndBlob(s, i + Len(CALL_COLON)) ELSE NoMatch

\* \s+ from index w on, ending before n, and the rest of the pattern
SpacedAfter(s, w, n) == IF n > w THEN NameAndBlob(s, n) ELSE NoMatch

\* MatchSpaced with \s* for \s+: "call" and the name need no whitespace between
MatchSpaced_zero_space(s, i) ==
    IF HasAt(s, i, CALL_WORD)
    THEN NameAndBlob(s, SpaceEnd(s, i + Len(CALL_WORD)))
    ELSE NoMatch

\* \bcall\s+(\w+)(?:\{[^}]*\})? at index i: "call" has to start a word
MatchSpaced_word_boundary(s, i) ==
    IF HasAt(s, i, CALL_WORD) /\ (i = 1 \/ ~IsWord(s[i - 1]))
    THEN SpacedAfter(s, i + Len(CALL_WORD), SpaceEnd(s, i + Len(CALL_WORD)))
    ELSE NoMatch

\* call\s+(\w+)(?:\{[^}]*\})? at index i
MatchSpaced(s, i) ==
    IF HasAt(s, i, CALL_WORD)
    THEN SpacedAfter(s, i + Len(CALL_WORD), SpaceEnd(s, i + Len(CALL_WORD)))
    ELSE NoMatch

\* the three patterns of SystemDiagnosisChat.parse_function_call, by priority
MatchAt(k, s, i) ==
    CASE k = 1 -> MatchBracketed(s, i)
      [] k = 2 -> MatchBare(s, i)
      [] k = 3 -> MatchSpaced(s, i)

\* the leftmost index >= i where pattern k matches, 0 when there is none
FirstMatch(k, s, i) ==
    LeastOr({j \in i..Len(s) : MatchAt(k, s, j).ok}, 0)

\* re.findall(pattern k, s) from index i on: the first group of every match,
\* leftmost first, each search resuming where the previous match ended
RECURSIVE findall(_, _, _)
findall_after(k, s, m) == <<m.name>> \o findall(k, s, m.end)
findall_at(k, s, a) == IF a = 0 THEN <<>> ELSE findall_after(k, s, MatchAt(k, s, a))
first_at(k, s, a) == IF a = 0 THEN <<>> ELSE <<MatchAt(k, s, a).name>>
\* findall that stops at the first match, as re.search does
findall_first(k, s, i) == first_at(k, s, FirstMatch(k, s, i))
findall(k, s, i) == findall_at(k, s, FirstMatch(k, s, i))

\* re.search(pattern k, s): the leftmost match
search_at(k, s, a) == IF a = 0 THEN NoMatch ELSE MatchAt(k, s, a)
search(k, s) == search_at(k, s, FirstMatch(k, s, 1))

----------------------------------------------------------------------------
(* SystemDiagnosisChat.parse_function_call (main.py, main_windows.py)      *)

\* `if matches: return matches`, else what the code goes on to
OrElse(matches, rest) == IF matches # <<>> THEN matches ELSE rest

\* parse_function_call that collects the matches of all three patterns
parse_function_call_merged(model_output) ==
    findall(1, model_output, 1) \o findall(2, model_output, 1)
        \o findall(3, model_output, 1)

\* parse_function_call that takes the bracketed and the bare matches together
parse_function_call_bracketed_and_bare(model_output) ==
    OrElse(findall(1, model_output, 1) \o findall(2, model_output, 1),
           OrElse(findall(3, model_output, 1), <<>>))

parse_function_call(model_output) ==
    OrElse(findall(1, model_output, 1),
           OrElse(findall(2, model_output, 1),
                  OrElse(findall(3, model_output, 1), <<>>)))

----------------------------------------------------------------------------
(* FineTunedAgent.parse_function_call (main_finetuned.py)                  *)

\* str.strip(): leading and trailing whitespace removed
RECURSIVE LStrip(_)
LStrip(s) == IF s # <<>> /\ IsSpace(Head(s)) THEN LStrip(Tail(s)) ELSE s
RECURSIVE RStrip(_)
RStrip(s) ==
    IF s # <<>> /\ IsSpace(s[Len(s)]) THEN RStrip(SubSeq(s, 1, Len(s) - 1)) ELSE s
\* strip that removes nothing
strip_nothing(s) == s
strip(s) == RStrip(LStrip(s))

\* Python values an argument mapping can be: a dict or (from eval) a set.
\* keys: what `k in params` holds for; vals: the (key, value) pairs of a dict.
PyDict(pairs) == [type |-> "dict", keys |-> {p[1] : p \in pairs}, vals |-> pairs]
PySet(elems) == [type |-> "set", keys |-> elems, vals |-> {}]
EmptyDict == PyDict({})

\* an element of a set that is no string: a function object, a probe's pair
Opaque == <<"<object>">>

\* a trace event: what was done, and to what
Event(op, arg) == [op |-> op, arg |-> arg]

\* what a search for a group returns: whether it matched, and the group
Group(g) == [found |-> TRUE, group |-> g]
NoGroup == [found |-> FALSE, group |-> <<>>]

\* re.search(r'message:<escape>(.*?)<escape>', s, re.DOTALL) from index i on.
\* The engine tries each start in turn; the lazy group ends at the first
\* <escape> after the start's own.
RECURSIVE escape_match(_, _)
\* the opening literal stands at a, the group starts at g, z is where the closing
\* <escape> stands (0: nowhere)
escape_group(s, a, g, z) ==
    IF z # 0 THEN Group(SubSeq(s, g, z - 1)) ELSE escape_match(s, a + 1)
escape_from(s, a, g) ==
    IF a = 0 THEN NoGroup ELSE escape_group(s, a, g, Find(s, ESCAPE, g))
escape_at(s, a) == escape_from(s, a, a + Len(MESSAGE_ESCAPE))
escape_match(s, i) == escape_at(s, Find(s, MESSAGE_ESCAPE, i))

\* re.search(r'"message"\s*:\s*"([^"]*)"', s) from index i on
RECURSIVE json_match(_, _)
\* "message" stands at a, c is where \s* after it ends, q where \s* after the
\* colon ends, z where the next quote after q stands (0: nowhere)
json_group(s, a, c, q, z) ==
    IF /\ c <= Len(s) /\ s[c] = ":"
       /\ q <= Len(s) /\ s[q] = "\""
       /\ z # 0
    THEN Group(SubSeq(s, q + 1, z - 1))
    ELSE json_match(s, a + 1)
json_quote(s, a, c, q) == json_group(s, a, c, q, IndexOf(s, "\"", q + 1))
json_colon(s, a, c) == json_quote(s, a, c, SpaceEnd(s, c + 1))
json_at(s, a) ==
    IF a = 0 THEN NoGroup ELSE json_colon(s, a, SpaceEnd(s, a + Len(MESSAGE_QUOTED)))
json_match(s, i) == json_at(s, Find(s, MESSAGE_QUOTED, i))

\* a Python string literal "..." with nothing to escape inside
IsStrLit(s) ==
    /\ Len(s) >= 2
    /\ s[1] = "\"" /\ s[Len(s)] = "\""
    /\ \A i \in 2..(Len(s) - 1) : s[i] \notin {"\"", "\\", "\n", "\r"}
StrOf(s) == SubSeq(s, 2, Len(s) - 1)

\* the names eval() finds bound to a function among those the inputs spell:
\* the probes imported at main_finetuned.py:14-17 and console (line 53)
EvalGlobals == AVAILABLE_FUNCTIONS \cup {console}

\* the module's name of its dispatch table, and the call that empties it
FUNCTIONS_NAME == <<"F","U","N","C","T","I","O","N","S">>
FUNCTIONS_CLEAR == FUNCTIONS_NAME \o <<".","c","l","e","a","r">>

\* what evaluating did not do
Evaluated(value) == [value |-> value, did |-> <<>>]

\* eval("{" inner "}") for key ":" val when a colon stands in inner
eval_pair(key, val) ==
    IF IsStrLit(key) /\ IsStrLit(val)
    THEN Evaluated(PyDict({<<StrOf(key), StrOf(val)>>}))
    ELSE Evaluated(EmptyDict)

\* eval("{" callee "()}"): a probe the module imports is called; the method
\* clear of the module's FUNCTIONS empties the table and gives None
eval_call(callee, raises) ==
    IF callee = FUNCTIONS_CLEAR
    THEN [value |-> PySet({Opaque}), did |-> <<Event("clear", FUNCTIONS_NAME)>>]
    ELSE IF callee \in AVAILABLE_FUNCTIONS
    THEN [value |-> IF ~raises /\ callee \in TupleProbes
                    THEN PySet({Opaque}) ELSE EmptyDict,
          did |-> <<Event("call", callee),
                    Event(IF raises THEN "raise" ELSE "return", callee)>>]
    ELSE Evaluated(EmptyDict)

\* eval("{" inner "}"), inner stripped; colon is where the first ":" stands
eval_inner(inner, colon, raises) ==
    IF inner = <<>> THEN Evaluated(EmptyDict)
    ELSE IF IsStrLit(inner) THEN Evaluated(PySet({StrOf(inner)}))
    ELSE IF colon # 0
         THEN eval_pair(strip(SubSeq(inner, 1, colon - 1)),
                        strip(SubSeq(inner, colon + 1, Len(inner))))
    ELSE IF WordEnd(inner, 1) = Len(inner) + 1
         THEN Evaluated(IF inner \in EvalGlobals THEN PySet({Opaque}) ELSE EmptyDict)
    ELSE IF Len(inner) > 2 /\ SubSeq(inner, Len(inner) - 1, Len(inner)) = <<"(", ")">>
         THEN eval_call(SubSeq(inner, 1, Len(inner) - 2), raises)
    ELSE Evaluated(EmptyDict)

eval_stripped(inner, raises) == eval_inner(inner, IndexOf(inner, ":", 1), raises)

\* eval(params_str) at main_finetuned.py:182 with the bare except of line 183:
\* the value left in params and what evaluating did. params_str is "{" inner "}"
\* with no "}" in inner. raises: whether a probe called by the text raises.
\*   {}            the empty dict
\*   {"s"}         a set holding the string
\*   {"k":"v"}     a dict
\*   {name}        a set holding the function, when name is bound; else NameError
\*   {probe()}     the probe runs; a set holding its pair, or TypeError for a
\*                 list (unhashable); console() lacks its argument: TypeError
\*   anything else no expression: SyntaxError, NameError
\* Every exception leaves params = {}.
py_eval(params_str, raises) ==
    eval_stripped(strip(SubSeq(params_str, 2, Len(params_str) - 1)), raises)

\* the names FUNCTIONS holds after a parse that did the events of did
TableAfter(table, did) ==
    IF \E i \in 1..Len(did) : did[i].op = "clear" THEN {} ELSE table

\* the return value (None, {}) of a text with no call
NoCall == [func_name |-> None, params |-> EmptyDict, did |-> <<>>]

Parsed(name, params, did) == [func_name |-> name, params |-> params, did |-> did]

\* main_finetuned.py:172-185: em and jm are the two searches of params_str, ev is
\* eval(params_str), reached when neither finds anything
params_of(name, params_str, defaulted, em, jm, ev) ==
    IF em.found THEN Parsed(name, PyDict({<<MESSAGE_KEY, strip(em.group)>>}), <<>>)
    ELSE IF jm.found THEN Parsed(name, PyDict({<<MESSAGE_KEY, jm.group>>}), <<>>)
    ELSE Parsed(name, ev.value,
                <<Event(IF defaulted THEN "eval_default" ELSE "eval", params_str)>>
                    \o ev.did)

\* main_finetuned.py:168-170: params_str = match.group(2) or "{}"
parse_params(name, params_str, defaulted, raises) ==
    params_of(name, params_str, defaulted, escape_match(params_str, 1),
              json_match(params_str, 1), py_eval(params_str, raises))

parse_match(m, raises) ==
    IF ~m.ok THEN NoCall
    ELSE parse_params(m.name, IF m.blob = None THEN <<"{", "}">> ELSE m.blob,
                      m.blob = None, raises)

\* the last of the two patterns that matches
FirstOf_last_pattern(m1, m2) == IF m2.ok THEN m2 ELSE m1
\* the first of the two patterns that matches
FirstOf(m1, m2) == IF m1.ok THEN m1 ELSE m2

\* The return value (func_name, params) and what the call did (did).
FineTunedAgent_parse_function_call(resp, raises) ==
    parse_match(FirstOf(search(2, resp), search(3, resp)), raises)

----------------------------------------------------------------------------
(* The probes (app.py, app_windows.py): external collaborators that return *)
(* one (title, content) pair, a list of pairs, or raise.                   *)

\* most pairs in the list a probe returns
MaxPairs == 2

Titles == {<<"T">>, <<"U">>}
Contents == {<<"c">>, <<>>}
Pairs == {<<t, c>> : t \in Titles, c \in Contents}
\* str(e) of the exception a probe raises
Details == {<<"b","o","o","m">>, <<>>}

RECURSIVE PairLists(_)
PairLists(k) ==
    IF k = 0 THEN {<<>>}
    ELSE LET shorter == PairLists(k - 1)
         IN  shorter \cup {l \o <<p>> : l \in shorter, p \in Pairs}

Returned(kind, items) == [kind |-> kind, items |-> items, detail |-> <<>>]
Raised(detail) == [kind |-> "raise", items |-> <<>>, detail |-> detail]
NoOutcome == [kind |-> "none", items |-> <<>>, detail |-> <<>>]

\* what a call of the probe named name can do
ProbeOutcomes(name) ==
    {Raised(d) : d \in Details} \cup
    IF name \in TupleProbes
    THEN {Returned("tuple", <<p>>) : p \in Pairs}
    ELSE {Returned("list", l) : l \in PairLists(MaxPairs)}

----------------------------------------------------------------------------
(* The executors.                                                          *)

ERROR_UNKNOWN_QUOTE == <<"E","r","r","o","r",":"," ","U","n","k","n","o","w","n"," ","f","u","n","c","t","i","o","n"," ","'">>
UNKNOWN_FUNCTION == <<"U","n","k","n","o","w","n"," ","f","u","n","c","t","i","o","n",":"," ">>
ERROR_UNKNOWN == <<"E","r","r","o","r",":"," ","U","n","k","n","o","w","n"," ","f","u","n","c","t","i","o","n"," ">>
ERROR_EXECUTING == <<"E","r","r","o","r"," ","e","x","e","c","u","t","i","n","g"," ">>
ERROR_COLON == <<"E","r","r","o","r",":"," ">>
NL == <<"\n">>
COLON_NL == <<":", "\n">>

\* SystemDiagnosisChat.format_function_results of main.py, on a probe's value
RECURSIVE main_format_list(_)
main_format_list(items) ==
    IF items = <<>> THEN <<>>
    ELSE NL \o Head(items)[1] \o COLON_NL \o Head(items)[2] \o NL
            \o main_format_list(Tail(items))

main_format_function_results(value) ==
    IF value.kind = "tuple"
    THEN NL \o value.items[1][1] \o COLON_NL \o value.items[1][2]
    ELSE main_format_list(value.items)

\* SystemDiagnosisChat.format_function_results of main_windows.py, and the
\* same formatting inlined in FineTunedAgent.execute_function
RECURSIVE windows_format_list(_)
windows_format_list(items) ==
    IF items = <<>> THEN <<>>
    ELSE Head(items)[1] \o COLON_NL \o Head(items)[2] \o NL \o NL
            \o windows_format_list(Tail(items))

windows_format_function_results(value) ==
    IF value.kind = "tuple"
    THEN value.items[1][1] \o COLON_NL \o value.items[1][2]
    ELSE windows_format_list(value.items)

\* what calling the probe does, as trace events
ProbeEvents(name, outcome) ==
    <<Event("call", name),
      Event(IF outcome.kind = "raise" THEN "raise" ELSE "return", name)>>

\* An executor's return value (text) and what the call did (did). outcome is
\* what the probe does if it is called.

\* execute_function_call that calls before it looks the name up
main_execute_function_call_unchecked(name, outcome) ==
    IF name \notin AVAILABLE_FUNCTIONS
    THEN [text |-> ERROR_UNKNOWN_QUOTE \o name \o <<"'">>,
          did |-> ProbeEvents(name, outcome)]
    ELSE [text |-> IF outcome.kind = "raise"
                   THEN ERROR_EXECUTING \o name \o <<":", " ">> \o outcome.detail
                   ELSE main_format_function_results(outcome),
          did |-> ProbeEvents(name, outcome)]
\* SystemDiagnosisChat.execute_function_call of main.py
main_execute_function_call(name, outcome) ==
    IF name \notin AVAILABLE_FUNCTIONS
    THEN [text |-> ERROR_UNKNOWN_QUOTE \o name \o <<"'">>, did |-> <<>>]
    ELSE [text |-> IF outcome.kind = "raise"
                   THEN ERROR_EXECUTING \o name \o <<":", " ">> \o outcome.detail
                   ELSE main_format_function_results(outcome),
          did |-> ProbeEvents(name, outcome)]

\* SystemDiagnosisChat.execute_function_call of main_windows.py
windows_execute_function_call(name, outcome) ==
    IF name \notin AVAILABLE_FUNCTIONS
    THEN [text |-> UNKNOWN_FUNCTION \o name, did |-> <<>>]
    ELSE [text |-> IF outcome.kind = "raise"
                   THEN ERROR_COLON \o outcome.detail
                   ELSE windows_format_function_results(outcome),
          did |-> ProbeEvents(name, outcome)]

\* FineTunedAgent.execute_function of main_finetuned.py
execute_function(name, outcome) ==
    IF name \notin FUNCTIONS
    THEN [text |-> ERROR_UNKNOWN \o name, did |-> <<>>]
    ELSE [text |-> IF outcome.kind = "raise"
                   THEN ERROR_COLON \o outcome.detail
                   ELSE windows_format_function_results(outcome),
          did |-> ProbeEvents(name, outcome)]

\* the executor of the program v
Executor(v, name, outcome) ==
    CASE v = "main" -> main_execute_function_call(name, outcome)
      [] v = "windows" -> windows_execute_function_call(name, outcome)
      [] v = "finetuned" -> execute_function(name, outcome)

\* the outcomes to draw from when the executor is handed name
OutcomesFor(name) ==
    IF name \in AVAILABLE_FUNCTIONS THEN ProbeOutcomes(name) ELSE {NoOutcome}

----------------------------------------------------------------------------
(* The texts a model is taken to produce.                                  *)

\* a name no dispatch table holds
foo == <<"f","o","o">>

\* most segments a text is made of
MaxSegs == 2
\* longest message put between two <escape>
MaxMsgLen == 3

\* the three call conventions, for a name and an argument blob
Bracketed(n, b) == START_CALL \o CALL_COLON \o n \o b \o END_CALL
Bare(n, b) == CALL_COLON \o n \o b
Spaced(n, b) == CALL_WORD \o <<" ">> \o n \o b

SegNames == {get_cpu_info, foo}
SegBlobs == {<<>>, <<"{", "}">>, <<"{", "x">>}
CallSegments ==
    UNION {{Bracketed(n, b), Bare(n, b), Spaced(n, b)} : n \in SegNames, b \in SegBlobs}
        \cup {CALL_WORD \o <<"\n">> \o n : n \in SegNames}
        \cup {Bare(n, <<>>) \o <<" ">> : n \in SegNames}
JunkSegments == {<<" ">>, <<"}">>, <<"x">>, CALL_WORD, END_CALL}
Segments == CallSegments \cup JunkSegments

\* the texts of at most k segments
RECURSIVE SegTexts(_)
SegTexts(k) ==
    IF k = 0 THEN {<<>>}
    ELSE LET shorter == SegTexts(k - 1)
         IN  shorter \cup {t \o g : t \in shorter, g \in Segments}

\* the messages of at most k characters
MsgChars == {"a", " ", "\n", "{", "}"}
RECURSIVE Messages(_)
Messages(k) ==
    IF k = 0 THEN {<<>>}
    ELSE LET shorter == Messages(k - 1)
         IN  shorter \cup {m \o <<c>> : m \in shorter, c \in MsgChars}

\* the console call the fine-tuning data teaches (generate_massive_dataset.py:665)
ConsoleCall(m) ==
    CALL_COLON \o console \o <<"{">> \o MESSAGE_ESCAPE \o m \o ESCAPE \o <<"}">>
ConsoleTexts == {ConsoleCall(m) : m \in Messages(MaxMsgLen)}

\* argument blobs in other syntaxes
OtherBlobs ==
    { <<"{", " ", "}">>,
      <<"{">> \o MESSAGE_QUOTED \o <<":", " ", "\"", "o", "k", "\"", "}">>,
      <<"{">> \o MESSAGE_QUOTED \o <<"}">>,
      <<"{", "\"", "a", "\"", ":", "\"", "b", "\"", "}">>,
      <<"{">> \o get_cpu_info \o <<"}">>,
      <<"{">> \o get_cpu_info \o <<"(", ")", "}">>,
      <<"{">> \o get_uptime_info \o <<"(", ")", "}">>,
      <<"{">> \o console \o <<"(", ")", "}">>,
      <<"{">> \o FUNCTIONS_CLEAR \o <<"(", ")", "}">>,
      <<"{">> \o MESSAGE_ESCAPE \o <<"o", "k", "}">> }
BlobTexts == {Bare(n, b) : n \in {console, foo}, b \in OtherBlobs}

\* one call to a function of the table in the fully-bracketed form, with an empty
\* or absent argument, among text that holds no call
Surroundings == {<<>>, <<" ", "x">>, <<"}", "\n">>, END_CALL}
RoundTripTexts ==
    {pre \o Bracketed(n, b) \o post :
        n \in AVAILABLE_FUNCTIONS, b \in {<<>>, <<"{", "}">>},
        pre \in Surroundings, post \in Surroundings}

\* the bare form of a function of the table, followed by unrelated text
Trailers ==
    { <<" ">>, <<"{", "x">>, <<"}">>, <<"{", "}", "x">>, <<"(", ")">>,
      <<"\n">> \o Spaced(foo, <<>>), <<" ">> \o END_CALL, <<".", " ">> \o CALL_WORD }
TrailingTexts == {Bare(n, <<>>) \o t : n \in AVAILABLE_FUNCTIONS, t \in Trailers}

ModelTexts ==
    SegTexts(MaxSegs) \cup ConsoleTexts \cup BlobTexts
        \cup RoundTripTexts \cup TrailingTexts

----------------------------------------------------------------------------
(* run_command (app.py, app_windows.py): the one place a probe starts an   *)
(* external command.                                                       *)

\* the default of the timeout parameter: app.py:13, app_windows.py:23
app_timeout == 5
app_windows_timeout == 10

ERROR_TIMED_OUT ==
    <<"E","r","r","o","r",":"," ","C","o","m","m","a","n","d"," ","t","i","m","e","d"," ","o","u","t">>
NO_OUTPUT == <<"(","n","o"," ","o","u","t","p","u","t",")">>

\* what a started command does: it exits after some seconds with a return code
\* and what it wrote, it never exits, or it cannot be started at all
Exits(seconds, returncode, stdout, stderr) ==
    [kind |-> "exits", seconds |-> seconds, returncode |-> returncode,
     stdout |-> stdout, stderr |-> stderr, detail |-> <<>>]
Hangs ==
    [kind |-> "hangs", seconds |-> 0, returncode |-> 0,
     stdout |-> <<>>, stderr |-> <<>>, detail |-> <<>>]
FailsToStart(detail) ==
    [kind |-> "fails", seconds |-> 0, returncode |-> 0,
     stdout |-> <<>>, stderr |-> <<>>, detail |-> detail]
NoProcess ==
    [kind |-> "none", seconds |-> 0, returncode |-> 0,
     stdout |-> <<>>, stderr |-> <<>>, detail |-> <<>>]

\* subprocess.run(cmd, ..., timeout=timeout): TimeoutExpired when the command
\* has not exited within the timeout
TimesOut(p, t) == p.kind = "hangs" \/ (p.kind = "exits" /\ p.seconds > t)

\* what run_command returns (every path of it returns), and what it started
CommandReturns(text, c, t) ==
    [text |-> text, did |-> <<Event("subprocess.run", <<c, t>>)>>]

\* run_command with no handler for TimeoutExpired of its own: the handler of
\* Exception makes "Error: Command '...' timed out ..." of it
app_run_command_one_handler(c, t, p) ==
    IF TimesOut(p, t)
    THEN CommandReturns(ERROR_COLON \o <<"C","o","m","m","a","n","d"," ","'">> \o c, c, t)
    ELSE IF p.kind = "fails" THEN CommandReturns(ERROR_COLON \o p.detail, c, t)
    ELSE CommandReturns(IF p.returncode = 0 THEN strip(p.stdout)
                  ELSE ERROR_COLON \o strip(p.stderr), c, t)

\* run_command of app.py
app_run_command(c, t, p) ==
    IF TimesOut(p, t) THEN CommandReturns(ERROR_TIMED_OUT, c, t)
    ELSE IF p.kind = "fails" THEN CommandReturns(ERROR_COLON \o p.detail, c, t)
    ELSE CommandReturns(IF p.returncode = 0 THEN strip(p.stdout)
                  ELSE ERROR_COLON \o strip(p.stderr), c, t)

\* app_windows.py:33-36
app_windows_output(output, stderr) ==
    IF output = <<>> /\ stderr # <<>> THEN ERROR_COLON \o strip(stderr)
    ELSE IF output # <<>> THEN output ELSE NO_OUTPUT

\* run_command of app_windows.py
app_windows_run_command(c, t, p) ==
    IF TimesOut(p, t) THEN CommandReturns(ERROR_TIMED_OUT, c, t)
    ELSE IF p.kind = "fails" THEN CommandReturns(ERROR_COLON \o p.detail, c, t)
    ELSE CommandReturns(app_windows_output(strip(p.stdout), p.stderr), c, t)

run_command(v, c, t, p) ==
    IF v = "app" THEN app_run_command(c, t, p) ELSE app_windows_run_command(c, t, p)

\* run_agent of t5_agent.py has not run
NoAgent == tool_calls = <<>> /\ agent_output = None

NoCommand ==
    /\ cmd = None
    /\ timeout = 0
    /\ process = NoProcess

\* every model was loaded
Constructed ==
    /\ load_failed = "none"
    /\ model_pass2 = "lora"
    /\ exit_status = <<>>

----------------------------------------------------------------------------
(* The state before any turn.                                              *)

NoTurn ==
    /\ FUNCTIONS = AVAILABLE_FUNCTIONS
    /\ NoCommand
    /\ Constructed
    /\ conversation_history = <<>>
    /\ gemma_model = TRUE
    /\ user_input = None
    /\ NoAgent
    /\ user_message = <<>>
    /\ results = <<>>
    /\ raw_data = <<>>
    /\ idx = 0
    /\ response2 = None
    /\ printed = <<>>
    /\ functions_called = <<>>
    /\ summary = None
    /\ turns = 0

----------------------------------------------------------------------------
(* The extractors applied to a text.                                       *)

InitExtract ==
    /\ variant \in {"main", "windows", "finetuned"}
    /\ pc = "extract"
    /\ response \in ModelTexts
    /\ function_names = <<>>
    /\ ft_call = NoCall
    /\ func_name = None
    /\ probe_outcome = NoOutcome
    /\ result = None
    /\ trace = <<>>
    /\ NoTurn

\* main.py:340, main_windows.py:319
ExtractNames ==
    /\ pc = "extract"
    /\ variant \in {"main", "windows"}
    /\ function_names' = parse_function_call(response)
    /\ pc' = "extracted"
    /\ UNCHANGED <<variant, agent_vars, user_input, run_vars, start_vars, FUNCTIONS, response, ft_call, call_vars, trace, turn_vars>>

\* main_finetuned.py:227 and :259
ExtractCall ==
    /\ pc = "extract"
    /\ variant = "finetuned"
    /\ \E raises \in BOOLEAN :
         \E c \in {FineTunedAgent_parse_function_call(response, raises)} :
            /\ ft_call' = c
            /\ trace' = trace \o c.did
            /\ FUNCTIONS' = TableAfter(FUNCTIONS, c.did)
    /\ pc' = "extracted"
    /\ UNCHANGED <<variant, agent_vars, user_input, run_vars, start_vars, response, function_names, call_vars, turn_vars>>

NextExtract == ExtractNames \/ ExtractCall

SpecExtract == InitExtract /\ [][NextExtract]_vars

----------------------------------------------------------------------------
(* The executors applied to a name.                                        *)

\* the names an executor is handed: the table's, and others
ExecNames == AVAILABLE_FUNCTIONS \cup {foo, console, <<>>, get_cpu_info \o <<" ">>}

InitExec ==
    /\ variant \in {"main", "windows", "finetuned"}
    /\ pc = "execute"
    /\ response = <<>>
    /\ function_names = <<>>
    /\ ft_call = NoCall
    /\ func_name \in ExecNames
    /\ probe_outcome = NoOutcome
    /\ result = None
    /\ trace = <<>>
    /\ NoTurn

\* the executor called once: main.py:345, main_windows.py:326,
\* main_finetuned.py:236
Execute ==
    /\ pc = "execute"
    /\ \E outcome \in OutcomesFor(func_name) :
         \E r \in {Executor(variant, func_name, outcome)} :
            /\ probe_outcome' = outcome
            /\ result' = r.text
            /\ trace' = trace \o <<Event("execute", func_name)>> \o r.did
                              \o <<Event("result", r.text)>>
    /\ pc' = "executed"
    /\ UNCHANGED <<variant, agent_vars, user_input, run_vars, start_vars, FUNCTIONS, response, function_names, ft_call, func_name, turn_vars>>

NextExec == Execute

SpecExec == InitExec /\ [][NextExec]_vars

----------------------------------------------------------------------------
(* run_command called on a command.                                        *)

\* the command lines of the probes: app.py:52, app.py:58, app_windows.py:53
Commands ==
    { <<"u","p","t","i","m","e"," ","-","p">>, <<"n","p","r","o","c">>,
      <<"n","e","t"," ","|"," ","f","i","n","d","s","t","r">> }
Stdouts == {<<>>, <<"o","k","\n">>, <<" ","\n">>}
Stderrs == {<<>>, <<"b","a","d","\n">>}
Timeouts(v) == {1, IF v = "app" THEN app_timeout ELSE app_windows_timeout}
Processes ==
    {Exits(s, rc, out, err) :
        s \in {0, 7, 60}, rc \in {0, 1}, out \in Stdouts, err \in Stderrs}
        \cup {Hangs} \cup {FailsToStart(d) : d \in Details}

InitCommand ==
    /\ variant \in {"app", "app_windows"}
    /\ FUNCTIONS = AVAILABLE_FUNCTIONS
    /\ cmd \in Commands
    /\ Constructed
    /\ timeout \in Timeouts(variant)
    /\ process = NoProcess
    /\ pc = "run_command"
    /\ response = <<>>
    /\ function_names = <<>>
    /\ ft_call = NoCall
    /\ func_name = None
    /\ probe_outcome = NoOutcome
    /\ result = None
    /\ trace = <<>>
    /\ conversation_history = <<>>
    /\ gemma_model = TRUE
    /\ user_input = None
    /\ NoAgent
    /\ user_message = <<>>
    /\ results = <<>>
    /\ raw_data = <<>>
    /\ idx = 0
    /\ response2 = None
    /\ printed = <<>>
    /\ functions_called = <<>>
    /\ summary = None
    /\ turns = 0

\* one call of run_command: app.py:13-36, app_windows.py:23-40
RunCommand ==
    /\ pc = "run_command"
    /\ \E p \in Processes :
          \E r \in {run_command(variant, cmd, timeout, p)} :
              /\ process' = p
              /\ result' = r.text
              /\ trace' = trace \o r.did
              /\ pc' = "returned"
    /\ UNCHANGED <<variant, agent_vars, user_input, start_vars, FUNCTIONS, cmd, timeout, response, function_names, ft_call,
                   func_name, probe_outcome, turn_vars>>

NextCommand == RunCommand

SpecCommand == InitCommand /\ [][NextCommand]_vars

----------------------------------------------------------------------------
(* The texts the programs return and print. A pictograph of the source is  *)
(* one element of the text.                                                *)

ERROR_GENERATING == <<"E","r","r","o","r"," ","g","e","n","e","r","a","t","i","n","g"," ","r","e","s","p","o","n","s","e",":"," ">>
MODEL_RESPONSE == <<"M","o","d","e","l"," ","R","e","s","p","o","n","s","e",":"," ">>
NO_CALLS_NOTE == <<"\n","\n","[","N","o","t","e",":"," ","N","o"," ","f","u","n","c","t","i","o","n"," ","c","a","l","l","s"," ","w","e","r","e"," ","d","e","t","e","c","t","e","d"," ","i","n"," ","t","h","e"," ","r","e","s","p","o","n","s","e","]">>
NO_DIAGNOSTIC == <<"N","o"," ","d","i","a","g","n","o","s","t","i","c"," ","f","u","n","c","t","i","o","n"," ","f","o","u","n","d"," ","f","o","r"," ","y","o","u","r"," ","q","u","e","r","y",".">>
COULD_NOT_DETERMINE == <<"I"," ","c","o","u","l","d","n","'","t"," ","d","e","t","e","r","m","i","n","e"," ","w","h","i","c","h"," ","f","u","n","c","t","i","o","n"," ","t","o"," ","c","a","l","l",".">>
SYSTEM_DATA_FOR_QUERY == <<"S","y","s","t","e","m"," ","d","a","t","a"," ","r","e","t","r","i","e","v","e","d"," ","f","o","r",":"," ">>
SYSTEM_DATA_RETRIEVED == <<"S","y","s","t","e","m"," ","d","a","t","a"," ","r","e","t","r","i","e","v","e","d",".">>
SYSTEM_DATA_FOR == <<"S","y","s","t","e","m"," ","d","a","t","a"," ","f","o","r",":"," ">>
HERES_THE_DATA == <<"H","e","r","e","'","s"," ","t","h","e"," ","s","y","s","t","e","m"," ","d","a","t","a",":","\n">>
DATA_TRUNCATED == <<"\n","[","D","a","t","a"," ","t","r","u","n","c","a","t","e","d","]">>
ASSISTANT == <<"[speech balloon]">> \o <<" ","A","s","s","i","s","t","a","n","t",":"," ">>
FUNCTION_EXECUTED == <<"[clipboard]">> \o <<" ","F","u","n","c","t","i","o","n"," ","E","x","e","c","u","t","e","d",":"," ">>
RESULT_LABEL == <<"[bar chart]">> \o <<" ","R","e","s","u","l","t",":","\n">>
SUCCESSFULLY_CALLED == <<"[check mark]">> \o <<" ","S","u","c","c","e","s","s","f","u","l","l","y"," ","c","a","l","l","e","d",":"," ">>
GOODBYE == <<"\n">> \o <<"[waving hand]">> \o <<" ","G","o","o","d","b","y","e","!"," ","T","h","a","n","k","s"," ","f","o","r"," ","u","s","i","n","g"," ","S","y","s","t","e","m"," ","D","i","a","g","n","o","s","i","s"," ","C","h","a","t",".","\n">>
INTERRUPTED == <<"\n","\n">> \o <<"[waving hand]">> \o <<" ","C","h","a","t"," ","i","n","t","e","r","r","u","p","t","e","d","."," ","G","o","o","d","b","y","e","!","\n">>
AVAILABLE_HEADER == <<"A","V","A","I","L","A","B","L","E"," ","S","Y","S","T","E","M"," ","D","I","A","G","N","O","S","I","S"," ","F","U","N","C","T","I","O","N","S",":">>
BULLET == <<" "," ">> \o <<"[bullet]">> \o <<" ">>
DESCRIPTION == <<"[description]">>
AI_COLON == <<"A","I",":"," ">>
NOT_SUBSCRIPTABLE == <<"'","s","e","t","'"," ","o","b","j","e","c","t"," ","i","s"," ","n","o","t"," ","s","u","b","s","c","r","i","p","t","a","b","l","e">>
USER_PREFIX == <<"U","s","e","r">>
AS_A_PREFIX == <<"A","s"," ","a">>
EXIT == <<"e","x","i","t">>
QUIT == <<"q","u","i","t">>
BYE == <<"b","y","e">>
FATAL_ERROR == <<"F","a","t","a","l"," ","e","r","r","o","r",":"," ">>
ERROR_LOADING == <<"E","r","r","o","r"," ","l","o","a","d","i","n","g"," ","m","o","d","e","l",":"," ">>
MAKE_SURE ==
    <<"M","a","k","e"," ","s","u","r","e"," ","y","o","u"," ","h","a","v","e"," ","i","n","s","t","a","l","l","e","d",":"," ","p","i","p"," ","i","n","s","t","a","l","l"," ","t","o","r","c","h"," ","t","r","a","n","s","f","o","r","m","e","r","s"," ","h","u","g","g","i","n","g","f","a","c","e","-","h","u","b">>
HELP == <<"h","e","l","p">>

\* the keys of the dispatch table in the order the source lists them
FunctionList ==
    <<get_uptime_info, get_cpu_info, get_memory_info, get_disk_info,
      get_network_info, get_system_info, get_process_info, get_user_info>>

\* "=" * 70 and "-" * 70
Rule(c) == [i \in 1..70 |-> c]
\* s[:n]
Take(s, n) == SubSeq(s, 1, IF Len(s) < n THEN Len(s) ELSE n)
\* sep.join(parts)
RECURSIVE Join(_, _)
Join(parts, sep) ==
    IF parts = <<>> THEN <<>>
    ELSE IF Len(parts) = 1 THEN parts[1]
    ELSE parts[1] \o sep \o Join(Tail(parts), sep)

\* str.lower() on the letters of the alphabet Upper
UPPERCASE == <<"A","B","C","D","E","F","G","H","I","J","K","L","M",
               "N","O","P","Q","R","S","T","U","V","W","X","Y","Z">>
LOWERCASE == <<"a","b","c","d","e","f","g","h","i","j","k","l","m",
               "n","o","p","q","r","s","t","u","v","w","x","y","z">>
lower(s) ==
    [i \in 1..Len(s) |->
        IF s[i] \in Upper
        THEN LOWERCASE[CHOOSE k \in 1..Len(UPPERCASE) : UPPERCASE[k] = s[i]]
        ELSE s[i]]

\* str.split('\n')
RECURSIVE split(_)
split_at(s, j) ==
    IF j = 0 THEN <<s>>
    ELSE <<SubSeq(s, 1, j - 1)>> \o split(SubSeq(s, j + 1, Len(s)))
split(s) == split_at(s, IndexOf(s, "\n", 1))

----------------------------------------------------------------------------
(* The summarization model and what the programs make of its output.       *)

SummaryTexts ==
    { <<>>,
      <<" ","o","k"," ">>,
      <<"\n","A","l","l"," ","f","i","n","e","."," ">>,
      <<"A","l","l"," ","i","s"," ","o","k",".">>,
      <<"A","l","l"," ","s","y","s","t","e","m","s"," ","a","r","e"," ","f","i","n","e",".">>,
      <<"U","s","e","r"," ","a","s","k","s","\n"," ","T","h","e"," ","d","i","s","k"," ","i","s"," ","f","i","n","e","."," ","\n","\n","A","s"," ","a"," ","n","o","t","e","\n","t","w","o","\n","t","h","r","e","e","\n","f","o","u","r">> }
SummarizerOutcomes ==
    {[kind |-> "raise", text |-> <<>>]} \cup {[kind |-> "text", text |-> t] : t \in SummaryTexts}
NotRun == [kind |-> "none", text |-> <<>>]

\* SystemDiagnosisChat.generate_friendly_message of main.py; out is what the
\* summarizer does when it is run
friendly_or_default_no_minimum(user_query, friendly_msg) ==
    IF friendly_msg = <<>> THEN SYSTEM_DATA_FOR_QUERY \o user_query ELSE friendly_msg
friendly_or_default(user_query, friendly_msg) ==
    IF friendly_msg = <<>> \/ Len(friendly_msg) < 10
    THEN SYSTEM_DATA_FOR_QUERY \o user_query
    ELSE friendly_msg

main_generate_friendly_message(loaded, user_query, out) ==
    IF ~loaded THEN SYSTEM_DATA_FOR_QUERY \o user_query
    ELSE IF out.kind = "raise" THEN SYSTEM_DATA_FOR_QUERY \o user_query
    ELSE friendly_or_default(user_query, strip(out.text))

\* SystemDiagnosisChat.sanitize_data of main_windows.py
sanitize_data(text) ==
    IF Len(text) > 2000 THEN Take(text, 2000) \o DATA_TRUNCATED ELSE text

\* main_windows.py:239-243: the lines stripped, those kept that are not empty
\* and start with neither 'User' nor 'As a'
KeepLine(line) ==
    /\ line # <<>>
    /\ ~HasAt(line, 1, USER_PREFIX)
    /\ ~HasAt(line, 1, AS_A_PREFIX)
cleaned_lines(lines) == SelectSeq([i \in 1..Len(lines) |-> strip(lines[i])], KeepLine)

\* main_windows.py:247-250
final_or_default(final_response) ==
    IF final_response = <<>> \/ Len(final_response) < 10
    THEN SYSTEM_DATA_RETRIEVED
    ELSE final_response

\* SystemDiagnosisChat.generate_friendly_output of main_windows.py; out is what
\* the summarizer does
windows_generate_friendly_output(user_query, out) ==
    IF out.kind = "raise" THEN SYSTEM_DATA_FOR \o user_query
    ELSE final_or_default(Join(Take(cleaned_lines(split(strip(out.text))), 3), NL))

\* the raw_data main.py builds from the turn's results (main.py:352-354)
RECURSIVE main_raw_data(_)
main_raw_data(items) ==
    IF items = <<>> THEN <<>>
    ELSE Head(items).function \o <<":", " ">> \o Head(items).result \o NL
            \o main_raw_data(Tail(items))

\* the output main.py builds (main.py:363-372)
RECURSIVE main_output_items(_)
main_output_items(items) ==
    IF items = <<>> THEN <<>>
    ELSE FUNCTION_EXECUTED \o Head(items).function \o NL
            \o RESULT_LABEL \o Head(items).result \o NL
            \o Rule("=") \o NL
            \o main_output_items(Tail(items))

main_output(friendly_msg, items) ==
    NL \o Rule("=") \o NL
       \o (IF friendly_msg # None /\ friendly_msg # <<>>
           THEN ASSISTANT \o friendly_msg \o NL \o Rule("-") \o NL
           ELSE <<>>)
       \o main_output_items(items)

\* the summary of a turn in which no call was found (main.py:383)
main_no_call_summary_silent(model_response) ==
    MODEL_RESPONSE \o model_response
main_no_call_summary(model_response) ==
    MODEL_RESPONSE \o model_response \o NO_CALLS_NOTE

\* what console(message) of main_finetuned.py prints
console_prints(message) ==
    <<NL \o Rule("="), AI_COLON \o message, Rule("=") \o NL>>

\* what display_available_functions of main.py prints
display_available_functions ==
    <<NL \o Rule("="), AVAILABLE_HEADER, Rule("=")>>
        \o [i \in 1..Len(FunctionList) |->
               BULLET \o FunctionList[i] \o <<":", " ">> \o DESCRIPTION]
        \o <<Rule("=") \o NL>>

----------------------------------------------------------------------------
(* The interactive loop and the turns it runs.                             *)

\* most inputs the loop reads
MaxTurns == 2

\* what the user types
UserInputs ==
    { <<>>, <<" "," ">>, <<"e","x","i","t">>, <<" ","Q","U","I","T"," ">>, <<"b","y","e">>, <<"H","e","l","p">>, <<" ","c","p","u","?"," ">> }

\* what the selection model answers
TurnTexts ==
    { <<"o","k">>,
      Bare(get_uptime_info, <<>>),
      Bare(get_cpu_info, <<>>) \o <<" ">> \o Bare(get_uptime_info, <<>>),
      Bare(get_cpu_info, <<>>) \o <<" ">> \o Bare(foo, <<>>) \o <<" ">> \o Bare(get_cpu_info, <<>>),
      Bracketed(get_cpu_info, <<"{", "}">>) \o Bare(get_uptime_info, <<>>),
      Spaced(foo, <<>>),
      Bare(foo, <<"{">> \o get_uptime_info \o <<"(", ")", "}">>),
      Bare(get_cpu_info, <<"{">> \o FUNCTIONS_CLEAR \o <<"(", ")", "}">>),
      Spaced(foo, <<>>) \o <<" ">> \o Bare(get_cpu_info, <<>>),
      <<"r", "e">> \o CALL_WORD \o <<"\n", " ">> \o foo \o <<".">> }

\* what the fine-tuned model answers in the second pass
Pass2Texts ==
    { <<"o","k">>,
      ConsoleCall(<<" ","A","l","l"," ","g","o","o","d"," ">>),
      Bare(console, <<"{">> \o MESSAGE_QUOTED \o <<"}">>),
      Bare(console, <<"{">> \o get_cpu_info \o <<"(", ")", "}">>),
      Bare(get_cpu_info, <<>>) }

\* what a probe does when a turn calls it
TurnOutcomes(name) ==
    IF name \notin AVAILABLE_FUNCTIONS THEN {NoOutcome}
    ELSE {Raised(<<"b","o","o","m">>)} \cup
         IF name \in TupleProbes
         THEN {Returned("tuple", <<<<<<"T">>, <<"c">>>>>>)}
         ELSE {Returned("list", <<<<<<"T">>, <<"c">>>>, <<<<"U">>, <<>>>>>>)}

Entry(role, content) == [role |-> role, content |-> content]

\* the words that end the loop
ExitWords(v) == IF v = "main" THEN {EXIT, QUIT, BYE} ELSE {EXIT, QUIT}

IsBlank(line) == line = <<>>
IsExit_case_sensitive(line) == line \in ExitWords(variant)
IsExit(line) == lower(line) \in ExitWords(variant)
IsHelp(line) == variant = "main" /\ lower(line) = HELP

\* the program starts: nothing is constructed yet
InitTurn ==
    /\ variant \in {"main", "windows", "finetuned"}
    /\ FUNCTIONS = AVAILABLE_FUNCTIONS
    /\ NoCommand
    /\ load_failed = "none"
    /\ model_pass2 = "unset"
    /\ exit_status = <<>>
    /\ pc = "start"
    /\ response = None
    /\ function_names = <<>>
    /\ ft_call = NoCall
    /\ func_name = None
    /\ probe_outcome = NoOutcome
    /\ result = None
    /\ trace = <<>>
    /\ conversation_history = <<>>
    /\ gemma_model = FALSE
    /\ user_input = None
    /\ NoAgent
    /\ user_message = <<>>
    /\ results = <<>>
    /\ raw_data = <<>>
    /\ idx = 0
    /\ response2 = None
    /\ printed = <<>>
    /\ functions_called = <<>>
    /\ summary = None
    /\ turns = 0

\* what cannot be loaded: nothing, the selection model ("selection"; in
\* main_finetuned.py also the base of the second pass), or the second model
\* ("second": the summarizer, in main_finetuned.py the LoRA adapter)
LoadFailures == {"none", "selection", "second"}

\* every load failure ends the program
IsFatal_any(v, failed) == failed # "none"
\* whether the failure ends the program: main.py:149-154 re-raises and 173-177
\* goes on; main_windows.py:113-141 and main_finetuned.py:66-82 have no handler,
\* main_finetuned.py:85-94 goes on with the base model
IsFatal(v, failed) ==
    \/ failed = "selection"
    \/ failed = "second" /\ v = "windows"

\* what the failing start prints: main.py:150-153 and 448, main_windows.py:364;
\* main_finetuned.py:289 has no handler (the interpreter's traceback)
fatal_prints(v, d) ==
    CASE v = "main" -> <<ERROR_LOADING \o d, MAKE_SURE, FATAL_ERROR \o d>>
      [] v = "windows" -> <<FATAL_ERROR \o d>>
      [] v = "finetuned" -> <<>>

\* construction fails: main.py:445-449, main_windows.py:360-365 exit(1); in
\* main_finetuned.py:289 the exception ends the interpreter with status 1
ConstructFails ==
    /\ pc = "start"
    /\ \E failed \in LoadFailures, d \in Details :
          /\ IsFatal(variant, failed)
          /\ load_failed' = failed
          /\ printed' = fatal_prints(variant, d)
    /\ exit_status' = <<1>>
    /\ pc' = "exited"
    /\ UNCHANGED <<variant, agent_vars, user_input, run_vars, FUNCTIONS, model_pass2, response, function_names,
                   ft_call, call_vars, trace, conversation_history, gemma_model,
                   user_message, results, raw_data, idx, response2, functions_called,
                   summary, turns>>

\* construction succeeds, with or without the second model: main.py:138-179,
\* main_windows.py:113-141, main_finetuned.py:64-96
Construct ==
    /\ pc = "start"
    /\ \E failed \in LoadFailures :
          /\ ~IsFatal(variant, failed)
          /\ load_failed' = failed
          /\ gemma_model' = (variant # "main" \/ failed = "none")
          /\ model_pass2' = IF variant # "finetuned" THEN "unset"
                            ELSE IF failed = "none" THEN "lora" ELSE "base"
    /\ pc' = "prompt"
    /\ UNCHANGED <<variant, agent_vars, user_input, run_vars, FUNCTIONS, exit_status, response, function_names,
                   ft_call, call_vars, trace, conversation_history, user_message,
                   results, raw_data, idx, response2, printed, functions_called,
                   summary, turns>>

\* input() returns: the locals of the turn before are gone
NewInput ==
    /\ turns' = turns + 1
    /\ response' = None
    /\ function_names' = <<>>
    /\ ft_call' = NoCall
    /\ func_name' = None
    /\ probe_outcome' = NoOutcome
    /\ result' = None
    /\ trace' = <<>>
    /\ results' = <<>>
    /\ raw_data' = <<>>
    /\ idx' = 0
    /\ response2' = None
    /\ functions_called' = <<>>
    /\ summary' = None
    /\ UNCHANGED <<variant, agent_vars, run_vars, start_vars, FUNCTIONS, gemma_model>>

\* main.py:413-414, main_windows.py:344-345, main_finetuned.py:277-278
ReadBlank ==
    /\ pc = "prompt" /\ turns < MaxTurns
    /\ \E inp \in UserInputs : IsBlank(strip(inp)) /\ user_input' = strip(inp)
    /\ NewInput
    /\ user_message' = <<>>
    /\ printed' = <<>>
    /\ pc' = "prompt"
    /\ UNCHANGED conversation_history

\* main.py:416-418, main_windows.py:347-348, main_finetuned.py:279-280
ReadExit ==
    /\ pc = "prompt" /\ turns < MaxTurns
    /\ \E inp \in UserInputs :
          ~IsBlank(strip(inp)) /\ IsExit(strip(inp)) /\ user_input' = strip(inp)
    /\ NewInput
    /\ user_message' = <<>>
    /\ printed' = IF variant = "main" THEN <<GOODBYE>> ELSE <<>>
    /\ pc' = "stopped"
    /\ UNCHANGED conversation_history

\* main.py:420-422
ReadHelp ==
    /\ pc = "prompt" /\ turns < MaxTurns
    /\ \E inp \in UserInputs :
          /\ ~IsBlank(strip(inp)) /\ ~IsExit(strip(inp)) /\ IsHelp(strip(inp))
          /\ user_input' = strip(inp)
    /\ NewInput
    /\ user_message' = <<>>
    /\ printed' = display_available_functions
    /\ pc' = "prompt"
    /\ UNCHANGED conversation_history

\* ReadQuery that starts the transcript afresh with every query
ReadQuery_fresh_transcript ==
    /\ pc = "prompt" /\ turns < MaxTurns
    /\ \E inp \in UserInputs :
          \E line \in {strip(inp)} :
              /\ ~IsBlank(line) /\ ~IsExit(line) /\ ~IsHelp(line)
              /\ user_input' = line
              /\ user_message' = line
              /\ conversation_history' =
                    IF variant = "finetuned" THEN conversation_history
                    ELSE <<Entry("user", line)>>
    /\ NewInput
    /\ printed' = <<>>
    /\ pc' = "infer"

\* main.py:424-425 and 286, main_windows.py:350 and 278, main_finetuned.py:281
ReadQuery ==
    /\ pc = "prompt" /\ turns < MaxTurns
    /\ \E inp \in UserInputs :
          \E line \in {strip(inp)} :
              /\ ~IsBlank(line) /\ ~IsExit(line) /\ ~IsHelp(line)
              /\ user_input' = line
              /\ user_message' = line
              /\ conversation_history' =
                    IF variant = "finetuned" THEN conversation_history
                    ELSE Append(conversation_history, Entry("user", line))
    /\ NewInput
    /\ printed' = <<>>
    /\ pc' = "infer"

\* KeyboardInterrupt at the prompt: main.py:434-436, main_windows.py:353-354,
\* main_finetuned.py:282-283
Interrupt ==
    /\ pc = "prompt" /\ turns < MaxTurns
    /\ NewInput
    /\ user_input' = None
    /\ user_message' = <<>>
    /\ printed' = IF variant = "main" THEN <<INTERRUPTED>> ELSE <<>>
    /\ pc' = "stopped"
    /\ UNCHANGED conversation_history

\* what the loop prints of a turn's return value: main.py:428-432,
\* main_windows.py:351
main_prints(text, called) ==
    <<text>> \o IF called # <<>>
                THEN <<SUCCESSFULLY_CALLED \o Join(called, <<",", " ">>)>>
                ELSE <<>>
windows_prints(text) == <<NL \o AI_COLON \o text \o NL>>

\* InferRaises with no handler around the inference: the exception leaves
\* generate_response and is caught by nothing that continues the turn
InferRaises_unhandled ==
    /\ pc = "infer"
    /\ \E d \in Details :
          /\ trace' = trace \o <<Event("infer", <<>>), Event("infer_raised", d)>>
          /\ printed' = <<>>
    /\ pc' = "stopped"
    /\ UNCHANGED <<variant, agent_vars, user_input, run_vars, start_vars, FUNCTIONS, response, function_names, ft_call,
                   call_vars, conversation_history, gemma_model, user_message, results,
                   raw_data, idx, response2, functions_called, summary, turns>>

\* the selection model fails: main.py:331-337, main_windows.py:316-317; in
\* main_finetuned.py call_model's exception (:226) reaches run (:284-285)
InferRaises ==
    /\ pc = "infer"
    /\ \E d \in Details :
          /\ trace' = trace \o <<Event("infer", <<>>), Event("infer_raised", d)>>
          /\ summary' = CASE variant = "main" -> ERROR_GENERATING \o d
                          [] variant = "windows" -> ERROR_COLON \o d
                          [] variant = "finetuned" -> summary
          /\ printed' = CASE variant = "main" -> main_prints(ERROR_GENERATING \o d, <<>>)
                          [] variant = "windows" -> windows_prints(ERROR_COLON \o d)
                          [] variant = "finetuned" -> <<ERROR_COLON \o d>>
    /\ pc' = "prompt"
    /\ UNCHANGED <<variant, agent_vars, user_input, run_vars, start_vars, FUNCTIONS, response, function_names, ft_call, call_vars,
                   conversation_history, gemma_model, user_message, results, raw_data,
                   idx, response2, functions_called, turns>>

\* no call in the model's output: main.py:340-343 and 380-389,
\* main_windows.py:319-322
InferNoCall ==
    /\ pc = "infer" /\ variant \in {"main", "windows"}
    /\ \E r \in TurnTexts :
          \E names \in {parse_function_call(r)}, said \in {main_no_call_summary(r)} :
             /\ names = <<>>
             /\ response' = r
             /\ function_names' = names
             /\ conversation_history' =
                   IF variant = "main"
                   THEN Append(conversation_history, Entry("assistant", r))
                   ELSE conversation_history
             /\ summary' = IF variant = "main" THEN said ELSE NO_DIAGNOSTIC
             /\ printed' = IF variant = "main"
                           THEN main_prints(said, <<>>)
                           ELSE windows_prints(NO_DIAGNOSTIC)
    /\ trace' = trace \o <<Event("infer", <<>>)>>
    /\ pc' = "prompt"
    /\ UNCHANGED <<variant, agent_vars, user_input, run_vars, start_vars, FUNCTIONS, ft_call, call_vars, gemma_model, user_message, results,
                   raw_data, idx, response2, functions_called, turns>>

\* calls in the model's output: main.py:340-344, main_windows.py:319-325
InferCalls ==
    /\ pc = "infer" /\ variant \in {"main", "windows"}
    /\ \E r \in TurnTexts :
          \E names \in {parse_function_call(r)} :
             /\ names # <<>>
             /\ response' = r
             /\ function_names' = names
    /\ trace' = trace \o <<Event("infer", <<>>)>>
    /\ idx' = 1
    /\ pc' = "loop"
    /\ UNCHANGED <<variant, agent_vars, user_input, run_vars, start_vars, FUNCTIONS, ft_call, call_vars, conversation_history, gemma_model,
                   user_message, results, raw_data, response2, printed,
                   functions_called, summary, turns>>

\* one pass of the loop over function_names, for the name it stands at:
\* main.py:344-346, main_windows.py:325-327
ExecuteAt(name) ==
    /\ \E outcome \in TurnOutcomes(name) :
          \E r \in {Executor(variant, name, outcome)} :
              /\ func_name' = name
              /\ probe_outcome' = outcome
              /\ result' = r.text
              /\ trace' = trace \o <<Event("execute", name)>> \o r.did
                                \o <<Event("result", r.text)>>
              /\ results' = IF variant = "main"
                            THEN Append(results, [function |-> name, result |-> r.text])
                            ELSE results
              /\ raw_data' = IF variant = "windows"
                             THEN raw_data \o name \o COLON_NL \o r.text \o NL \o NL
                             ELSE raw_data
    /\ idx' = idx + 1
    /\ UNCHANGED <<variant, agent_vars, user_input, run_vars, start_vars, FUNCTIONS, pc, response, function_names, ft_call, conversation_history,
                   gemma_model, user_message, response2, printed, functions_called,
                   summary, turns>>

ExecuteNext_first_name ==
    /\ pc = "loop" /\ variant \in {"main", "windows"}
    /\ idx <= Len(function_names)
    /\ ExecuteAt(function_names[1])
ExecuteNext ==
    /\ pc = "loop" /\ variant \in {"main", "windows"}
    /\ idx <= Len(function_names)
    /\ ExecuteAt(function_names[idx])

\* after the loop: main.py:348-379 and 428-432
MainSummarize ==
    /\ pc = "loop" /\ variant = "main"
    /\ idx > Len(function_names)
    /\ conversation_history' = Append(conversation_history, Entry("assistant", response))
    /\ raw_data' = main_raw_data(results)
    /\ \E out \in (IF gemma_model THEN SummarizerOutcomes ELSE {NotRun}) :
          \E friendly_msg \in
                {IF gemma_model
                 THEN main_generate_friendly_message(gemma_model, user_message, out)
                 ELSE None} :
             \E output \in {main_output(friendly_msg, results)} :
                /\ trace' = trace \o IF gemma_model
                                     THEN <<Event("summarize",
                                                  Take(main_raw_data(results), 400))>>
                                     ELSE <<>>
                /\ response2' = IF out.kind = "text" THEN out.text ELSE None
                /\ summary' = output
                /\ printed' = main_prints(output, function_names)
    /\ functions_called' = function_names
    /\ pc' = "prompt"
    /\ UNCHANGED <<variant, agent_vars, user_input, run_vars, start_vars, FUNCTIONS, response, function_names, ft_call, call_vars, gemma_model,
                   user_message, results, idx, turns>>

\* WindowsSummarize that runs the summarizer once for every function called
WindowsSummarize_per_function ==
    /\ pc = "loop" /\ variant = "windows"
    /\ idx > Len(function_names)
    /\ conversation_history' = Append(conversation_history, Entry("assistant", response))
    /\ \E out \in SummarizerOutcomes :
          \E friendly_output \in {windows_generate_friendly_output(user_message, out)} :
             /\ summary' = friendly_output
             /\ printed' = windows_prints(friendly_output)
    /\ trace' = trace \o [i \in 1..Len(function_names) |->
                              Event("summarize", sanitize_data(raw_data))]
    /\ pc' = "prompt"
    /\ UNCHANGED <<variant, agent_vars, user_input, run_vars, start_vars, FUNCTIONS, response, function_names, ft_call,
                   call_vars, gemma_model, user_message, results, raw_data, idx,
                   response2, functions_called, turns>>

\* after the loop: main_windows.py:329-332 and 351
WindowsSummarize ==
    /\ pc = "loop" /\ variant = "windows"
    /\ idx > Len(function_names)
    /\ conversation_history' = Append(conversation_history, Entry("assistant", response))
    /\ \E out \in SummarizerOutcomes :
          \E friendly_output \in {windows_generate_friendly_output(user_message, out)} :
             /\ summary' = friendly_output
             /\ printed' = windows_prints(friendly_output)
    /\ trace' = trace \o <<Event("summarize", sanitize_data(raw_data))>>
    /\ pc' = "prompt"
    /\ UNCHANGED <<variant, agent_vars, user_input, run_vars, start_vars, FUNCTIONS, response, function_names, ft_call, call_vars, gemma_model,
                   user_message, results, raw_data, idx, response2, functions_called,
                   turns>>

\* pass 1 finds no function: main_finetuned.py:226-231
Pass1NoCall ==
    /\ pc = "infer" /\ variant = "finetuned"
    /\ \E r \in TurnTexts, raises \in BOOLEAN :
          \E c \in {FineTunedAgent_parse_function_call(r, raises)} :
              /\ c.func_name = None
              /\ response' = r
              /\ ft_call' = c
              /\ trace' = trace \o <<Event("infer", <<>>)>> \o c.did
              /\ FUNCTIONS' = TableAfter(FUNCTIONS, c.did)
    /\ printed' = console_prints(COULD_NOT_DETERMINE)
    /\ pc' = "prompt"
    /\ UNCHANGED <<variant, agent_vars, user_input, run_vars, start_vars, function_names, call_vars, conversation_history, gemma_model,
                   user_message, results, raw_data, idx, response2, functions_called,
                   summary, turns>>

\* pass 1 picks a function: main_finetuned.py:226-233
Pass1Call ==
    /\ pc = "infer" /\ variant = "finetuned"
    /\ \E r \in TurnTexts, raises \in BOOLEAN :
          \E c \in {FineTunedAgent_parse_function_call(r, raises)} :
              /\ c.func_name # None
              /\ response' = r
              /\ ft_call' = c
              /\ func_name' = c.func_name
              /\ trace' = trace \o <<Event("infer", <<>>)>> \o c.did
              /\ FUNCTIONS' = TableAfter(FUNCTIONS, c.did)
    /\ pc' = "ft_execute"
    /\ UNCHANGED <<variant, agent_vars, user_input, run_vars, start_vars, function_names, probe_outcome, result, conversation_history,
                   gemma_model, user_message, results, raw_data, idx, response2, printed,
                   functions_called, summary, turns>>

\* main_finetuned.py:236
FTExecute ==
    /\ pc = "ft_execute"
    /\ \E outcome \in (IF func_name \in FUNCTIONS
                       THEN TurnOutcomes(func_name) ELSE {NoOutcome}) :
          \E r \in {execute_function(func_name, outcome)} :
              /\ probe_outcome' = outcome
              /\ result' = r.text
              /\ trace' = trace \o <<Event("execute", func_name)>> \o r.did
                                \o <<Event("result", r.text)>>
    /\ pc' = "pass2"
    /\ UNCHANGED <<variant, agent_vars, user_input, run_vars, start_vars, FUNCTIONS, response, function_names, ft_call, func_name, turn_vars>>

\* Pass2Raises with no handler in run: the exception ends the loop
Pass2Raises_unhandled ==
    /\ pc = "pass2"
    /\ \E d \in Details :
          /\ trace' = trace \o <<Event("infer", <<>>), Event("infer_raised", d)>>
          /\ printed' = <<>>
    /\ pc' = "stopped"
    /\ UNCHANGED <<variant, agent_vars, user_input, run_vars, start_vars, FUNCTIONS, response, function_names, ft_call,
                   call_vars, conversation_history, gemma_model, user_message, results,
                   raw_data, idx, response2, functions_called, summary, turns>>

\* the second model fails: call_model's exception reaches run
\* (main_finetuned.py:258 and 284-285)
Pass2Raises ==
    /\ pc = "pass2"
    /\ \E d \in Details :
          /\ trace' = trace \o <<Event("infer", <<>>), Event("infer_raised", d)>>
          /\ printed' = <<ERROR_COLON \o d>>
    /\ pc' = "prompt"
    /\ UNCHANGED <<variant, agent_vars, user_input, run_vars, start_vars, FUNCTIONS, response, function_names, ft_call, call_vars,
                   conversation_history, gemma_model, user_message, results, raw_data,
                   idx, response2, functions_called, summary, turns>>

\* pass 2: main_finetuned.py:242-265
Pass2 ==
    /\ pc = "pass2"
    /\ \E r \in Pass2Texts, raises \in BOOLEAN :
          \E c \in {FineTunedAgent_parse_function_call(r, raises)},
             result_truncated \in {IF Len(result) > 800 THEN Take(result, 800) ELSE result} :
              /\ response2' = r
              /\ ft_call' = c
              /\ trace' = trace \o <<Event("infer", <<>>)>> \o c.did
              /\ FUNCTIONS' = TableAfter(FUNCTIONS, c.did)
              /\ printed' =
                    IF c.func_name = console /\ MESSAGE_KEY \in c.params.keys
                    THEN IF c.params.type = "dict"
                         THEN console_prints(
                                 (CHOOSE p \in c.params.vals : p[1] = MESSAGE_KEY)[2])
                         ELSE <<ERROR_COLON \o NOT_SUBSCRIPTABLE>>
                    ELSE console_prints(HERES_THE_DATA \o Take(result_truncated, 500))
    /\ pc' = "prompt"
    /\ UNCHANGED <<variant, agent_vars, user_input, run_vars, start_vars, response, function_names, call_vars, conversation_history,
                   gemma_model, user_message, results, raw_data, idx, functions_called,
                   summary, turns>>

NextTurn ==
    \/ ConstructFails \/ Construct
    \/ ReadBlank \/ ReadExit \/ ReadHelp \/ ReadQuery \/ Interrupt
    \/ InferRaises \/ InferNoCall \/ InferCalls \/ ExecuteNext
    \/ MainSummarize \/ WindowsSummarize
    \/ Pass1NoCall \/ Pass1Call \/ FTExecute \/ Pass2Raises \/ Pass2

SpecTurn == InitTurn /\ [][NextTurn]_vars

\* the executors on any name, and the turns together
InitProgram == InitExec \/ InitTurn
NextProgram == NextExec \/ NextTurn
SpecProgram == InitProgram /\ [][NextProgram]_vars

----------------------------------------------------------------------------
(* The T5 agent (t5/t5_agent.py).                                          *)

Search == <<"S","e","a","r","c","h">>
OpenFile == <<"O","p","e","n","F","i","l","e">>
Bash == <<"B","a","s","h">>
\* the keys of the registry TOOLS (t5_agent.py:64-68)
TOOLS == {Search, OpenFile, Bash}

UNKNOWN_TOOL == <<"U","n","k","n","o","w","n"," ","t","o","o","l",":"," ">>
TAKES_ONE_ARGUMENT == <<" ","t","a","k","e","s"," ","e","x","a","c","t","l","y"," ","1"," ","a","r","g","u","m","e","n","t",","," ","g","o","t"," ">>
SEARCH_RESULTS_FOR == <<"S","e","a","r","c","h"," ","r","e","s","u","l","t","s"," ","f","o","r"," ","'">>
FOUND_5_RESULTS == <<"F","o","u","n","d"," ","5"," ","r","e","s","u","l","t","s"," ","a","b","o","u","t"," ">>
FILE_QUOTE == <<"F","i","l","e"," ","'">>
CONTENTS == <<"'"," ","c","o","n","t","e","n","t","s",":","\n">>
ERROR_READING == <<"E","r","r","o","r"," ","r","e","a","d","i","n","g"," ","'">>
COMMAND_QUOTE == <<"C","o","m","m","a","n","d"," ","'">>
OUTPUT_COLON == <<"'"," ","o","u","t","p","u","t",":","\n">>
TIMED_OUT == <<"'"," ","t","i","m","e","d"," ","o","u","t">>
ERROR_EXECUTING_QUOTE == <<"E","r","r","o","r"," ","e","x","e","c","u","t","i","n","g"," ","'">>
QUOTE_COLON == <<"'",":"," ">>

\* str(n) for a natural number
DIGITS == <<"0","1","2","3","4","5","6","7","8","9">>
RECURSIVE str_int(_)
str_int(n) ==
    IF n < 10 THEN <<DIGITS[n + 1]>>
    ELSE str_int(n \div 10) \o <<DIGITS[(n % 10) + 1]>>

\* args.split(',') with every part stripped (t5_agent.py:85)
RECURSIVE args_list_of(_)
args_list_from(args, j) ==
    IF j = 0 THEN <<strip(args)>>
    ELSE <<strip(SubSeq(args, 1, j - 1))>> \o args_list_of(SubSeq(args, j + 1, Len(args)))
args_list_of(args) == args_list_from(args, IndexOf(args, ",", 1))

\* (\w+)\(([^)]*)\) at index i: the index of the closing parenthesis, 0 with no
\* match. The greedy \w+ runs to the end of the word, where "(" has to stand; a
\* shorter name would be followed by a word character.
ToolCallClose(s, i) ==
    IF IsWord(s[i]) /\ WordEnd(s, i) <= Len(s) /\ s[WordEnd(s, i)] = "("
    THEN IndexOf(s, ")", WordEnd(s, i) + 1)
    ELSE 0

\* the pair re.findall gives for the match at index i
ToolCallAt(s, i) ==
    <<SubSeq(s, i, WordEnd(s, i) - 1),
      SubSeq(s, WordEnd(s, i) + 1, ToolCallClose(s, i) - 1)>>

\* parse_tool_calls (t5_agent.py:70-77): the matches from left to right, each
\* search starting after the match before
RECURSIVE parse_tool_calls_from(_, _)
parse_tool_calls_at(s, a) ==
    IF a = 0 THEN <<>>
    ELSE <<ToolCallAt(s, a)>> \o parse_tool_calls_from(s, ToolCallClose(s, a) + 1)
parse_tool_calls_from(s, i) ==
    parse_tool_calls_at(s, LeastOr({j \in i..Len(s) : ToolCallClose(s, j) # 0}, 0))
parse_tool_calls(text) == parse_tool_calls_from(text, 1)

\* search_tool (t5_agent.py:32-35)
search_tool(query) ==
    SEARCH_RESULTS_FOR \o query \o QUOTE_COLON \o FOUND_5_RESULTS \o query

\* what a tool returns for one argument. open_file_tool (37-44) gives the
\* first 500 characters of the file or the error of reading it, bash_tool
\* (46-61) the first 500 characters of the output, or that the command timed
\* out, or the error of starting it.
FileContents == {<<>>, <<"h","i","\n">>}
CommandOutputs == {<<>>, <<"o","k","\n">>}
ToolTexts(name, arg) ==
    CASE name = Search -> {search_tool(arg)}
      [] name = OpenFile ->
            {FILE_QUOTE \o arg \o CONTENTS \o Take(c, 500) : c \in FileContents}
                \cup {ERROR_READING \o arg \o QUOTE_COLON \o d : d \in Details}
      [] name = Bash ->
            {COMMAND_QUOTE \o arg \o OUTPUT_COLON \o Take(c, 500) : c \in CommandOutputs}
                \cup {COMMAND_QUOTE \o arg \o TIMED_OUT}
                \cup {ERROR_EXECUTING_QUOTE \o arg \o QUOTE_COLON \o d : d \in Details}
      [] OTHER -> {}

\* what a call of a tool does: it returns one of its texts, or an exception
\* leaves it. The tools catch Exception around their work, so the second is
\* what is raised outside those handlers (a MemoryError while the text is
\* built) or by a tool put into TOOLS later.
ToolOutcomes(name, arg) ==
    {Raised(<<"b","o","o","m">>)} \cup {Returned("text", x) : x \in ToolTexts(name, arg)}

\* execute_tool that hands the first argument to the tool when there are several
execute_tool_first_argument(tool_name, args, outcome) ==
    IF tool_name \notin TOOLS
    THEN [text |-> UNKNOWN_TOOL \o tool_name, did |-> <<>>]
    ELSE [text |-> IF outcome.kind = "raise"
                   THEN ERROR_EXECUTING \o tool_name \o <<":", " ">> \o outcome.detail
                   ELSE outcome.items,
          did |-> <<Event("call", <<tool_name, args_list_of(args)[1]>>),
                    Event(IF outcome.kind = "raise" THEN "raise" ELSE "return", tool_name)>>]

\* execute_tool (t5_agent.py:79-93); outcome is what the tool does if called
execute_tool(tool_name, args, outcome) ==
    IF tool_name \notin TOOLS
    THEN [text |-> UNKNOWN_TOOL \o tool_name, did |-> <<>>]
    ELSE IF Len(args_list_of(args)) = 1
    THEN [text |-> IF outcome.kind = "raise"
                   THEN ERROR_EXECUTING \o tool_name \o <<":", " ">> \o outcome.detail
                   ELSE outcome.items,
          did |-> <<Event("call", <<tool_name, args_list_of(args)[1]>>),
                    Event(IF outcome.kind = "raise" THEN "raise" ELSE "return", tool_name)>>]
    ELSE [text |-> ERROR_COLON \o tool_name \o TAKES_ONE_ARGUMENT
                      \o str_int(Len(args_list_of(args))),
          did |-> <<>>]

\* what the model of run_agent answers
ToolNames == TOOLS \cup {foo}
ToolArgs == {<<>>, <<"a">>, <<" ", "a", " ">>, <<"a", ",", "b">>, <<"a", ",", " ", "b", ",">>}
ToolCall(name, args) == name \o <<"(">> \o args \o <<")">>
AgentTexts ==
    {ToolCall(n, a) : n \in ToolNames, a \in ToolArgs}
        \cup {ToolCall(Search, <<"a">>) \o <<"|">> \o ToolCall(n, <<"a", ",", "b">>) \o <<"|", "o", "k">> :
                 n \in ToolNames}
        \cup {<<"n", "o", " ", "t", "o", "o", "l", "s">>, Search \o <<"(", "a">>,
              <<"(", "a", ")">>}

InitAgent ==
    /\ variant = "t5"
    /\ pc = "run_agent"
    /\ response = None
    /\ function_names = <<>>
    /\ ft_call = NoCall
    /\ func_name = None
    /\ probe_outcome = NoOutcome
    /\ result = None
    /\ trace = <<>>
    /\ NoTurn

\* the model fails: nothing in run_agent catches it (t5_agent.py:119-121)
GenerateRaises ==
    /\ pc = "run_agent"
    /\ trace' = <<Event("infer", <<>>), Event("infer_raised", <<>>)>>
    /\ pc' = "raised"
    /\ UNCHANGED <<variant, agent_vars, FUNCTIONS, run_vars, start_vars, response, function_names,
                   ft_call, call_vars, turn_vars>>

\* the model answers and the answer is parsed: t5_agent.py:119-128 and 141-143
Generate ==
    /\ pc = "run_agent"
    /\ \E r \in AgentTexts :
          \E calls \in {parse_tool_calls(r)} :
              /\ response' = r
              /\ tool_calls' = calls
              /\ agent_output' = IF calls = <<>> THEN r ELSE None
              /\ pc' = IF calls = <<>> THEN "returned" ELSE "tools"
    /\ trace' = <<Event("infer", <<>>)>>
    /\ idx' = 1
    /\ UNCHANGED <<variant, FUNCTIONS, run_vars, start_vars, function_names, ft_call, call_vars,
                   conversation_history, gemma_model, user_input, user_message, results,
                   raw_data, response2, printed, functions_called, summary, turns>>

\* one pass of the loop over tool_calls: t5_agent.py:131-134
ExecuteTool ==
    /\ pc = "tools" /\ idx <= Len(tool_calls)
    /\ \E outcome \in ToolOutcomes(tool_calls[idx][1], strip(tool_calls[idx][2])) :
          \E r \in {execute_tool(tool_calls[idx][1], tool_calls[idx][2], outcome)} :
              /\ func_name' = tool_calls[idx][1]
              /\ probe_outcome' = outcome
              /\ result' = r.text
              /\ trace' = trace \o <<Event("execute", tool_calls[idx])>> \o r.did
                                \o <<Event("result", r.text)>>
              /\ results' = Append(results,
                                   ToolCall(tool_calls[idx][1], tool_calls[idx][2])
                                       \o <<"|">> \o r.text)
    /\ idx' = idx + 1
    /\ UNCHANGED <<variant, agent_vars, FUNCTIONS, run_vars, start_vars, pc, response,
                   function_names, ft_call, conversation_history, gemma_model, user_input,
                   user_message, raw_data, response2, printed, functions_called, summary,
                   turns>>

\* after the loop: t5_agent.py:137-140
AgentReturn ==
    /\ pc = "tools" /\ idx > Len(tool_calls)
    /\ agent_output' = Join(results, <<",">>)
    /\ pc' = "returned"
    /\ UNCHANGED <<variant, tool_calls, FUNCTIONS, run_vars, start_vars, response, function_names,
                   ft_call, call_vars, trace, turn_vars>>

NextAgent == GenerateRaises \/ Generate \/ ExecuteTool \/ AgentReturn

SpecAgent == InitAgent /\ [][NextAgent]_vars

----------------------------------------------------------------------------
(* Claims about the extractors (SpecExtract).                              *)

AllWord(s, a, b) == \A k \in a..b : IsWord(s[k])
AllSpace(s, a, b) == \A k \in a..b : IsSpace(s[k])
Extracted(v) == pc = "extracted" /\ variant \in v

\* the text holds "call:" and a word character, or "call", whitespace and a
\* word character: what the loosest patterns of both extractors need
HasMarker(s) ==
    \E i \in 1..Len(s) :
        \/ /\ HasAt(s, i, CALL_COLON)
           /\ i + 5 <= Len(s) /\ IsWord(s[i + 5])
        \/ /\ HasAt(s, i, CALL_WORD)
           /\ \E j \in (i + 5)..Len(s) : IsWord(s[j]) /\ AllSpace(s, i + 4, j - 1)

\* C5: on a text where no pattern can match (the empty text included) the
\* extractor of main.py and main_windows.py returns the empty list and the
\* fine-tuned one returns (None, {}), having done nothing.
C5_NoMatchIsEmpty ==
    (pc = "extracted" /\ ~HasMarker(response)) =>
        /\ variant \in {"main", "windows"} => function_names = <<>>
        /\ variant = "finetuned" => ft_call = NoCall /\ trace = <<>>

C5_Witness ==
    /\ pc = "extracted"
    /\ ~HasMarker(response)
    /\ response = CALL_WORD \o <<"x">>

\* the places where pattern k matches, and the first pattern that matches
Starts(k, s) == {p \in 1..Len(s) : MatchAt(k, s, p).ok}
Winner(s) ==
    IF Starts(1, s) # {} THEN 1
    ELSE IF Starts(2, s) # {} THEN 2
    ELSE IF Starts(3, s) # {} THEN 3
    ELSE 0

\* the i-th least element of a set of numbers
Nth(S, i) == CHOOSE x \in S : Cardinality({y \in S : y < x}) = i - 1

\* a fully-bracketed call stands at index i, with its name ending before e:
\* the language of the first pattern, stated without the matcher
BracketedCall(s, i, e) ==
    LET n == i + Len(START_CALL) + Len(CALL_COLON)
    IN  /\ HasAt(s, i, START_CALL \o CALL_COLON)
        /\ e > n /\ e <= Len(s) /\ AllWord(s, n, e - 1)
        /\ \/ HasAt(s, e, END_CALL)
           \/ /\ s[e] = "{"
              /\ \E j \in (e + 1)..Len(s) :
                    /\ s[j] = "}"
                    /\ \A k \in (e + 1)..(j - 1) : s[k] # "}"
                    /\ HasAt(s, j + 1, END_CALL)
BracketedStarts(s) ==
    {i \in 1..Len(s) : /\ HasAt(s, i, START_CALL \o CALL_COLON)
                       /\ \E e \in i..Len(s) : BracketedCall(s, i, e)}
BracketedNames(s) ==
    UNION {{SubSeq(s, i + Len(START_CALL) + Len(CALL_COLON), e - 1) :
               e \in {x \in i..Len(s) : BracketedCall(s, i, x)}} :
           i \in BracketedStarts(s)}

\* a name stands at n..e-1 and is not part of a longer word to the right
NameAt(s, n, e) ==
    /\ e > n /\ e <= Len(s) + 1 /\ AllWord(s, n, e - 1)
    /\ e <= Len(s) => ~IsWord(s[e])
\* the names that follow a "call:" in the text
BareStarts(s) ==
    {i \in 1..Len(s) : HasAt(s, i, CALL_COLON) /\ i + 5 <= Len(s) /\ IsWord(s[i + 5])}
BareNames(s) ==
    UNION {{SubSeq(s, i + Len(CALL_COLON), e - 1) :
               e \in {x \in i..(Len(s) + 1) : NameAt(s, i + Len(CALL_COLON), x)}} :
           i \in BareStarts(s)}

\* C3: the patterns are tried in the order bracketed, bare, spaced and only the
\* first one that matches contributes. When the text holds a bracketed call, the
\* result holds bracketed calls' names only, and no more of them than there are
\* bracketed calls; when it holds none but holds a bare call, the result holds
\* names that follow "call:" only, no more than there are such places. A
\* bracketed call followed by a bare call yields the bracketed call's name alone.
C3_FirstPatternWins ==
    Extracted({"main", "windows"}) =>
        /\ BracketedStarts(response) # {} =>
              /\ function_names # <<>>
              /\ \A i \in 1..Len(function_names) :
                    function_names[i] \in BracketedNames(response)
              /\ Len(function_names) <= Cardinality(BracketedStarts(response))
        /\ (BracketedStarts(response) = {} /\ BareStarts(response) # {}) =>
              /\ function_names # <<>>
              /\ \A i \in 1..Len(function_names) :
                    function_names[i] \in BareNames(response)
              /\ Len(function_names) <= Cardinality(BareStarts(response))
        /\ \A n \in SegNames, m \in SegNames, b \in SegBlobs :
              response = Bracketed(n, <<>>) \o Bare(m, b) => function_names = <<n>>

C3_Witness ==
    /\ Extracted({"main", "windows"})
    /\ response = Bracketed(get_cpu_info, <<>>) \o Bare(foo, <<>>)
    /\ function_names = <<get_cpu_info>>

\* C4: the result is the name of every match of the winning pattern that no
\* earlier match covers, in the order of the places, repeated names kept:
\* the selected places are those no selected place to the left runs over.
C4_AllMatchesInOrder ==
    Extracted({"main", "windows"}) =>
        LET k == Winner(response)
            all == IF k = 0 THEN {} ELSE Starts(k, response)
            Covered(p, sel) ==
                \E q \in sel : q < p /\ p < MatchAt(k, response, q).end
        IN  /\ \E sel \in SUBSET all :
                 /\ \A p \in all : p \in sel <=> ~Covered(p, sel)
                 /\ Len(function_names) = Cardinality(sel)
                 /\ \A i \in 1..Len(function_names) :
                       function_names[i] = MatchAt(k, response, Nth(sel, i)).name
            /\ \A a \in SegNames, b \in SegNames :
                 response = Bare(a, <<>>) \o <<" ">> \o Bare(b, <<>>)
                    => function_names = <<a, b>>

\* two bare calls of the same name, and two of different names in order
C4_Witness ==
    /\ Extracted({"main", "windows"})
    /\ response = Bare(foo, <<>>) \o <<" ">> \o Bare(get_cpu_info, <<>>)
    /\ function_names = <<foo, get_cpu_info>>

C4_WitnessRepeated ==
    /\ Extracted({"main", "windows"})
    /\ response = Bare(foo, <<>>) \o <<" ">> \o Bare(foo, <<>>)
    /\ function_names = <<foo, foo>>

\* the text is call:console{message:<escape>M<escape>}, and its M
CONSOLE_PREFIX == CALL_COLON \o console \o <<"{">> \o MESSAGE_ESCAPE
CONSOLE_SUFFIX == ESCAPE \o <<"}">>
IsConsoleCall(s) ==
    /\ Len(s) >= Len(CONSOLE_PREFIX) + Len(CONSOLE_SUFFIX)
    /\ HasAt(s, 1, CONSOLE_PREFIX)
    /\ HasAt(s, Len(s) - Len(CONSOLE_SUFFIX) + 1, CONSOLE_SUFFIX)
MessageOf(s) == SubSeq(s, Len(CONSOLE_PREFIX) + 1, Len(s) - Len(CONSOLE_SUFFIX))

\* t is m without its leading and trailing whitespace
IsTrimOf(t, m) ==
    \E a \in 0..Len(m), b \in 0..Len(m) :
        /\ a + b <= Len(m)
        /\ AllSpace(m, 1, a) /\ AllSpace(m, Len(m) - b + 1, Len(m))
        /\ t = SubSeq(m, a + 1, Len(m) - b)
        /\ t # <<>> => ~IsSpace(t[1]) /\ ~IsSpace(t[Len(t)])

\* C10: for a message M with no "}" and no <escape> in it, the fine-tuned
\* extractor reads call:console{message:<escape>M<escape>} as the name console
\* with the one argument message = M trimmed.
C10_ConsoleMessage ==
    (/\ Extracted({"finetuned"})
     /\ IsConsoleCall(response)
     /\ \A i \in 1..Len(MessageOf(response)) :
           MessageOf(response)[i] # "}" /\ ~HasAt(MessageOf(response), i, ESCAPE)) =>
        /\ ft_call.func_name = console
        /\ ft_call.params.type = "dict"
        /\ ft_call.params.keys = {MESSAGE_KEY}
        /\ \E t \in {p[2] : p \in ft_call.params.vals} :
              /\ ft_call.params.vals = {<<MESSAGE_KEY, t>>}
              /\ IsTrimOf(t, MessageOf(response))

C10_Witness ==
    /\ Extracted({"finetuned"})
    /\ response = ConsoleCall(<<" ", "a", "\n">>)
    /\ ft_call.params.vals = {<<MESSAGE_KEY, <<"a">>>>}

\* C2: parsing runs nothing and evaluates no text of the model: no probe is
\* called while the extractor runs, no argument blob other than the empty "{}"
\* is handed to eval, and a blob that is not a message field leaves the
\* argument empty.
C2_BlobNeverEvaluated ==
    Extracted({"finetuned"}) =>
        /\ \A i \in 1..Len(trace) :
              /\ trace[i].op # "call"
              /\ trace[i].op = "eval" => trace[i].arg = <<"{", "}">>
        /\ \/ ft_call.params = EmptyDict
           \/ /\ ft_call.params.type = "dict"
              /\ ft_call.params.keys = {MESSAGE_KEY}

\* no call marker stands in s[lo..hi]: neither "call:" nor "call" and whitespace
NoMarker(s, lo, hi) ==
    \A i \in lo..hi :
        /\ ~(i + Len(CALL_COLON) - 1 <= hi /\ HasAt(s, i, CALL_COLON))
        /\ ~(i + Len(CALL_WORD) <= hi /\ HasAt(s, i, CALL_WORD)
               /\ IsSpace(s[i + Len(CALL_WORD)]))

\* the literal lit stands at index i of s and no call marker stands around it
StandsAlone(s, i, lit) ==
    /\ HasAt(s, i, lit)
    /\ NoMarker(s, 1, i - 1)
    /\ NoMarker(s, i + Len(lit), Len(s))

\* C13: round trip of the name: a text that holds the fully-bracketed call of a
\* function n of the table, with an empty or absent argument, and no call marker
\* around it, is extracted as exactly <<n>>.
C13_BracketedRoundTrip ==
    Extracted({"main", "windows"}) =>
        \A n \in AVAILABLE_FUNCTIONS, b \in {<<>>, <<"{", "}">>} :
            \A i \in 1..Len(response) :
                StandsAlone(response, i, Bracketed(n, b)) => function_names = <<n>>

C13_Witness ==
    /\ Extracted({"main", "windows"})
    /\ response = <<" ", "x">> \o Bracketed(get_memory_info, <<"{", "}">>) \o END_CALL
    /\ function_names = <<get_memory_info>>

C13_WitnessAbsent ==
    /\ Extracted({"main", "windows"})
    /\ response = Bracketed(get_user_info, <<>>)
    /\ function_names = <<get_user_info>>

\* the text is call:n and a trailing text that starts with a character no name
\* holds and has no "call:" in it
BareThenTrailing(s, n) ==
    /\ HasAt(s, 1, Bare(n, <<>>))
    /\ Len(s) > Len(Bare(n, <<>>))
    /\ ~IsWord(s[Len(Bare(n, <<>>)) + 1])
    /\ \A i \in (Len(Bare(n, <<>>)) + 1)..Len(s) : ~HasAt(s, i, CALL_COLON)

\* C14: the bare form call:n of a function n of the table, followed by a
\* trailing text that starts with a non-identifier character and holds no
\* "call:", is extracted as exactly <<n>>.
C14_BareThenTrailingText ==
    Extracted({"main", "windows"}) =>
        \A n \in AVAILABLE_FUNCTIONS :
            BareThenTrailing(response, n) => function_names = <<n>>

C14_Witness ==
    /\ Extracted({"main", "windows"})
    /\ response = Bare(get_disk_info, <<>>) \o <<"\n">> \o Spaced(foo, <<>>)
    /\ function_names = <<get_disk_info>>

\* a "{", a "}" or a newline stands in m
HasDelimiter(m) == \E i \in 1..Len(m) : m[i] \in {"{", "}", "\n"}

\* C11: an escape-delimited message carries delimiters: for every message M with
\* a brace or a newline in it (and no <escape>), the fine-tuned extractor reads
\* call:console{message:<escape>M<escape>} as the name console with the one
\* argument message = the whole of M trimmed.
C11_EscapeCarriesDelimiters ==
    (/\ Extracted({"finetuned"})
     /\ IsConsoleCall(response)
     /\ HasDelimiter(MessageOf(response))
     /\ \A i \in 1..Len(MessageOf(response)) :
           ~HasAt(MessageOf(response), i, ESCAPE)) =>
        /\ ft_call.func_name = console
        /\ ft_call.params.keys = {MESSAGE_KEY}
        /\ \E t \in {strip(MessageOf(response))} :
              ft_call.params.vals = {<<MESSAGE_KEY, t>>}

\* C12: message is the only field the extractor decodes: the argument mapping it
\* returns is empty or is a mapping whose only key is message.
C12_OnlyMessageDecoded ==
    Extracted({"finetuned"}) =>
        /\ ft_call.params.type = "dict"
        /\ ft_call.params.keys \subseteq {MESSAGE_KEY}

\* C15: the extractor is a pure function of its input: what it returns is fixed
\* by the text alone (the same for whatever the world does meanwhile), and a call
\* to it leaves the transcript and the dispatch tables as they were initialized.
C15_ExtractorIsPure ==
    pc = "extracted" =>
        /\ FUNCTIONS = AVAILABLE_FUNCTIONS
        /\ conversation_history = <<>>
        /\ variant = "finetuned" =>
              \A raises \in BOOLEAN :
                  \E again \in {FineTunedAgent_parse_function_call(response, raises)} :
                      /\ again.func_name = ft_call.func_name
                      /\ again.params = ft_call.params

----------------------------------------------------------------------------
(* Claims about the executors (SpecExec).                                  *)

\* C6: when the probe of a registered function raises, the executor returns the
\* text "Error executing {name}: {detail}", which holds the probe's name.
C6_ErrorNamesProbe ==
    (pc = "executed" /\ probe_outcome.kind = "raise") =>
        result = ERROR_EXECUTING \o func_name \o <<":", " ">> \o probe_outcome.detail

\* the block of one (title, content) pair
Block(pair) == pair[1] \o COLON_NL \o pair[2]
Blocks(items) == [i \in 1..Len(items) |-> Block(items[i])]

\* C7: for a probe that returns one pair the executor's text is exactly
\* title ":" newline content; for a list of pairs it is the pairs' blocks in the
\* list's order with a blank line between consecutive blocks (newlines may
\* stand before the first and after the last).
C7_Normalized ==
    pc = "executed" =>
        /\ probe_outcome.kind = "tuple" => result = Block(probe_outcome.items[1])
        /\ probe_outcome.kind = "list" =>
              \E before \in {<<>>, NL}, after \in {<<>>, NL, NL \o NL} :
                 result = before \o Join(Blocks(probe_outcome.items), NL \o NL) \o after

----------------------------------------------------------------------------
(* Claims about the executors and the turns together (SpecProgram).        *)

Contains(s, lit) == \E i \in 1..Len(s) : HasAt(s, i, lit)
IsErrorText(t) == HasAt(t, 1, ERROR_COLON) \/ HasAt(t, 1, UNKNOWN_FUNCTION)

----------------------------------------------------------------------------
(* Claims about the turns (SpecTurn).                                      *)

IsExecute(e) == e.op = "execute"
IsResult(e) == e.op = "result"
\* the executor calls of the turn so far, and what they returned
Executions == SelectSeq(trace, IsExecute)
Returns == SelectSeq(trace, IsResult)

\* main_windows.py's raw_data for the names and the texts the executor returned
RECURSIVE Accumulated(_, _)
Accumulated(names, texts) ==
    IF names = <<>> THEN <<>>
    ELSE Head(names) \o COLON_NL \o Head(texts).arg \o NL \o NL
            \o Accumulated(Tail(names), Tail(texts))

\* C8: in a turn of main.py or main_windows.py the executor is called once for
\* each parsed name, in the parsed order, repeated names again; the i-th
\* accumulated result is the i-th name's; and a probe a call starts has returned
\* or raised before anything else happens.
C8_OneAtATimeInOrder ==
    variant \in {"main", "windows"} =>
        /\ Len(Executions) <= Len(function_names)
        /\ Len(Returns) = Len(Executions)
        /\ \A i \in 1..Len(Executions) : Executions[i].arg = function_names[i]
        /\ pc = "loop" => Len(Executions) = idx - 1
        /\ pc \in {"prompt", "stopped"} => Len(Executions) = Len(function_names)
        /\ variant = "main" =>
              /\ Len(results) = Len(Executions)
              /\ \A i \in 1..Len(results) :
                    results[i] = [function |-> function_names[i], result |-> Returns[i].arg]
        /\ (variant = "windows" /\ pc = "loop") =>
              raw_data = Accumulated(SubSeq(function_names, 1, idx - 1), Returns)
        /\ \A j \in 1..Len(trace) :
              trace[j].op = "call" =>
                 /\ j > 1 /\ trace[j - 1] = Event("execute", trace[j].arg)
                 /\ j + 1 < Len(trace)
                 /\ trace[j + 1].op \in {"return", "raise"}
                 /\ trace[j + 1].arg = trace[j].arg
                 /\ trace[j + 2].op = "result"

\* a turn that ran the same probe twice with an unknown name between, the first
\* run raising and the second returning
C8_Witness ==
    /\ variant = "main"
    /\ pc = "prompt"
    /\ function_names = <<get_cpu_info, foo, get_cpu_info>>
    /\ Len(results) = 3
    /\ results[1].result # results[3].result

\* the extractor finds no call in the selection model's output
NoCallFound ==
    /\ response # None
    /\ IF variant = "finetuned"
       THEN FineTunedAgent_parse_function_call(response, FALSE).func_name = None
       ELSE parse_function_call(response) = <<>>

\* C9: a turn whose selection output holds no call ends with the user told that
\* no function was found: main.py prints the model's text and the note that no
\* function calls were detected, main_windows.py and main_finetuned.py their
\* fixed sentences; nothing was executed, no probe called, the summarizer not
\* run, and no function reported as called.
C9_NoCallSaidPlainly ==
    (pc = "prompt" /\ NoCallFound) =>
        /\ \A i \in 1..Len(trace) :
              trace[i].op \notin {"execute", "call", "summarize", "eval", "eval_default"}
        /\ Len(SelectSeq(trace, LAMBDA e : e.op = "infer")) = 1
        /\ functions_called = <<>>
        /\ results = <<>>
        /\ printed = CASE variant = "main" ->
                             <<MODEL_RESPONSE \o response \o NO_CALLS_NOTE>>
                       [] variant = "windows" ->
                             <<NL \o AI_COLON \o NO_DIAGNOSTIC \o NL>>
                       [] variant = "finetuned" ->
                             <<NL \o Rule("="), AI_COLON \o COULD_NOT_DETERMINE,
                               Rule("=") \o NL>>

C9_Witness ==
    /\ pc = "prompt"
    /\ variant = "main"
    /\ response = <<"o","k">>
    /\ printed # <<>>
    /\ Len(conversation_history) = 2

\* the model-inference calls of the turn, in order: a call of the selection
\* model or of the second-pass model ("infer"), a call of the summarizer
IsInference(e) == e.op \in {"infer", "summarize"}
Inferences == SelectSeq(trace, IsInference)

\* the turn found a function name in the selection model's output
NameExtracted ==
    IF variant = "finetuned" THEN func_name # None ELSE function_names # <<>>

\* C17: a turn makes at most two model-inference calls: the selection call
\* first, then at most one summarization call (the summarizer; in
\* main_finetuned.py the second pass), which is made only when a function name
\* was extracted, however many were.
C17_AtMostTwoInferences ==
    /\ Len(Inferences) <= 2
    /\ Inferences # <<>> => trace[1] = Event("infer", <<>>)
    /\ pc \in {"loop", "ft_execute", "pass2"} => Len(Inferences) = 1
    /\ Len(Inferences) = 2 =>
          /\ NameExtracted
          /\ Inferences[2].op = IF variant = "finetuned" THEN "infer" ELSE "summarize"

C17_Witness ==
    /\ pc = "prompt"
    /\ variant = "windows"
    /\ Len(function_names) = 3
    /\ Len(Inferences) = 2

C17_WitnessSecondPass ==
    /\ pc = "prompt"
    /\ variant = "finetuned"
    /\ response2 # None
    /\ Len(Inferences) = 2

\* the step is one of generate_response: it enters it from the prompt, or runs
\* inside it
InGenerateResponse ==
    /\ variant \in {"main", "windows"}
    /\ \/ pc = "prompt" /\ pc' = "infer"
       \/ pc \in {"infer", "loop"}

\* C18: the transcript is append-only: every step leaves the entries it holds
\* where and as they are, adds at most one entry at its end, and only a step of
\* generate_response adds one.
C18_TranscriptAppendOnly ==
    [][/\ Len(conversation_history') >= Len(conversation_history)
       /\ Len(conversation_history') <= Len(conversation_history) + 1
       /\ SubSeq(conversation_history', 1, Len(conversation_history))
             = conversation_history
       /\ conversation_history' # conversation_history => InGenerateResponse]_vars

C18_Witness ==
    /\ pc = "prompt"
    /\ turns = 2
    /\ Len(conversation_history) = 4
    /\ conversation_history[1].role = "user"
    /\ conversation_history[2].role = "assistant"
    /\ conversation_history[3].role = "user"

\* the code stands inside a turn: between reading a query and the next prompt
InTurn == pc \notin {"start", "exited", "prompt", "stopped"}

\* C19: nothing a turn raises or produces ends the loop: the loop stops only
\* at its prompt, on an exit word or a keyboard interrupt, never from inside a
\* turn; a turn ends by going back to the prompt with text printed for the
\* user, and inside a turn the code always has a next step.
C19_ErrorsStayInTurn ==
    [][/\ pc' = "stopped" => pc = "prompt" /\ user_message' = <<>>
       /\ (InTurn /\ ~InTurn') => pc' = "prompt" /\ printed' # <<>>
       /\ InTurn' => (ENABLED NextTurn)']_vars

C19_Witness ==
    /\ pc = "prompt"
    /\ variant = "finetuned"
    /\ turns = 2
    /\ ft_call.params.type = "set"
    /\ printed = <<ERROR_COLON \o NOT_SUBSCRIPTABLE>>

C19_WitnessProbeRaises ==
    /\ pc = "prompt"
    /\ variant = "main"
    /\ probe_outcome.kind = "raise"
    /\ function_names = <<get_cpu_info, get_uptime_info>>
    /\ printed # <<>>

\* text holds, from index from on, one section after the other for the names
\* in order: the name, then the text its execution gave
RECURSIVE HasSections(_, _, _, _)
SectionText(text, q, names, texts) ==
    IF q = 0 THEN FALSE
    ELSE HasSections(text, q + Len(Head(texts)), Tail(names), Tail(texts))
SectionName(text, p, names, texts) ==
    IF p = 0 THEN FALSE
    ELSE SectionText(text,
                     IF Head(texts) = <<>> THEN p + Len(Head(names))
                     ELSE Find(text, Head(texts), p + Len(Head(names))),
                     names, texts)
HasSections(text, from, names, texts) ==
    IF names = <<>> THEN TRUE
    ELSE SectionName(text, Find(text, Head(names), from), names, texts)

\* the texts the executions of the turn gave, in order
ResultTexts == [i \in 1..Len(Returns) |-> Returns[i].arg]

\* a turn of main.py or main_windows.py that executed several functions, one of
\* whose probes raised, has ended
SeveralExecutedOneFailed ==
    /\ pc = "prompt"
    /\ variant \in {"main", "windows"}
    /\ Len(function_names) >= 2
    /\ Len(Returns) = Len(function_names)
    /\ \E i \in 1..Len(trace) : trace[i].op = "raise"

\* C20: when a turn executed several functions and a probe failed, the text
\* shown for the turn holds one section for every executed function, in order,
\* that names the function and states what its execution gave: for the failing
\* one, the error text.
C20_EveryFunctionHasSection ==
    SeveralExecutedOneFailed =>
        HasSections(summary, 1, function_names, ResultTexts)

C20_Witness ==
    /\ SeveralExecutedOneFailed
    /\ variant = "main"
    /\ function_names = <<get_cpu_info, get_uptime_info>>
    /\ ResultTexts[1] = ERROR_EXECUTING \o get_cpu_info \o <<":", " ">> \o <<"b","o","o","m">>
    /\ HasSections(summary, 1, function_names, ResultTexts)

\* the second model could not be loaded and the program runs without it
Degraded ==
    /\ load_failed = "second"
    /\ \/ variant = "main" /\ ~gemma_model
       \/ variant = "finetuned" /\ model_pass2 = "base"

\* C21: the only hard failure is at startup: the program exits with a status
\* only when the selection model cannot be loaded, and then with status 1 before
\* any prompt; in main.py and main_finetuned.py a second model that cannot be
\* loaded is not fatal: the program runs degraded and its turns complete.
C21_OnlyStartupIsFatal ==
    variant \in {"main", "finetuned"} =>
        /\ exit_status # <<>> =>
              /\ exit_status = <<1>>
              /\ pc = "exited" /\ turns = 0
              /\ load_failed = "selection"
        /\ pc = "exited" => exit_status = <<1>>
        /\ load_failed = "selection" => pc = "exited"
        /\ load_failed = "second" =>
              /\ Degraded
              /\ pc # "exited" /\ exit_status = <<>>
              /\ InTurn => ENABLED NextTurn

C21_Witness ==
    /\ variant = "main"
    /\ pc = "exited"
    /\ exit_status = <<1>>
    /\ load_failed = "selection"
    /\ turns = 0

C21_WitnessDegraded ==
    /\ variant = "main"
    /\ Degraded
    /\ pc = "prompt"
    /\ turns = 2
    /\ functions_called = <<get_cpu_info, get_uptime_info>>
    /\ printed # <<>>

C21_WitnessBaseModel ==
    /\ variant = "finetuned"
    /\ Degraded
    /\ pc = "prompt"
    /\ response2 # None
    /\ printed # <<>>

\* a generate_response call has completed, or none was made yet
BetweenTurns == pc \in {"prompt", "stopped"} /\ variant \in {"main", "windows"}

\* C22: between turns the transcript alternates: the entries at odd positions
\* are the user's, those at even positions the assistant's, and every user
\* entry has its assistant entry after it, whatever path the turns took.
C22_TranscriptAlternates ==
    BetweenTurns =>
        /\ \A i \in 1..Len(conversation_history) :
              conversation_history[i].role = IF i % 2 = 1 THEN "user" ELSE "assistant"
        /\ Len(conversation_history) % 2 = 0

\* the probe of name was called in the turn and returned
ProbeReturned(name) == \E i \in 1..Len(trace) : trace[i] = Event("return", name)

\* C23: every name reported in functions_called (and printed after
\* "Successfully called:") is a name of the dispatch table whose probe was
\* called in that turn and returned without raising.
C23_CalledMeansSucceeded ==
    (variant = "main" /\ pc = "prompt") =>
        \A i \in 1..Len(functions_called) :
            /\ functions_called[i] \in AVAILABLE_FUNCTIONS
            /\ ProbeReturned(functions_called[i])

\* the places where "call", whitespace and a word character stand
SpacedStarts(s) ==
    {i \in 1..Len(s) :
        /\ HasAt(s, i, CALL_WORD)
        /\ i + Len(CALL_WORD) <= Len(s) /\ IsSpace(s[i + Len(CALL_WORD)])
        /\ SpaceEnd(s, i + Len(CALL_WORD)) <= Len(s)
        /\ IsWord(s[SpaceEnd(s, i + Len(CALL_WORD))])}

\* the word that starts at index n
WordFrom(s, n) == SubSeq(s, n, WordEnd(s, n) - 1)

\* the name of the first call of the text in the fine-tuned agent's reading: the
\* one after the leftmost "call:", or with no "call:" and a name anywhere, the
\* one after the leftmost "call" and whitespace; None with neither
FirstCallName(s) ==
    IF BareStarts(s) # {} THEN WordFrom(s, LeastOr(BareStarts(s), 0) + Len(CALL_COLON))
    ELSE IF SpacedStarts(s) # {}
         THEN WordFrom(s, SpaceEnd(s, LeastOr(SpacedStarts(s), 0) + Len(CALL_WORD)))
    ELSE None

\* the first pass of a turn of the fine-tuned agent is over
AfterPass1 == variant = "finetuned" /\ response # None /\ pc # "ft_execute"

\* C24: the fine-tuned agent executes at most one function in a turn: when the
\* output of the first pass holds calls, the executor is called exactly once,
\* for the first match of the first pattern that matches, whatever follows it;
\* when it holds none, the executor is not called.
C24_OneFunctionPerTurn ==
    /\ variant = "finetuned" => Len(Executions) <= 1
    /\ AfterPass1 =>
          Executions = IF FirstCallName(response) = None THEN <<>>
                       ELSE <<Event("execute", FirstCallName(response))>>

C24_Witness ==
    /\ AfterPass1
    /\ pc = "prompt"
    /\ response = Bare(get_cpu_info, <<>>) \o <<" ">> \o Bare(get_uptime_info, <<>>)
    /\ Executions = <<Event("execute", get_cpu_info)>>

C24_WitnessPriority ==
    /\ AfterPass1
    /\ response = Spaced(foo, <<>>) \o <<" ">> \o Bare(get_cpu_info, <<>>)
    /\ Executions = <<Event("execute", get_cpu_info)>>

\* no model call of the turn raised
NoModelRaised == \A i \in 1..Len(trace) : trace[i].op # "infer_raised"

\* a turn of the fine-tuned agent is over and no model call of it raised
QuietTurnOver ==
    variant = "finetuned" /\ pc = "prompt" /\ response # None /\ NoModelRaised

\* the lines are one emission of console(): a rule, "AI: " and text, a rule
IsConsoleEmission(lines) ==
    /\ Len(lines) = 3
    /\ lines[1] = NL \o Rule("=") /\ lines[3] = Rule("=") \o NL
    /\ HasAt(lines[2], 1, AI_COLON)

\* the second pass parsed to console with a message argument
ConsoleWithMessage == ft_call.func_name = console /\ MESSAGE_KEY \in ft_call.params.keys

\* C25: a turn of the fine-tuned agent in which no model call raises ends with
\* exactly one console emission: the "couldn't determine" message when pass 1
\* yields no name; the message of pass 2 when it parses to console with a
\* message argument; otherwise the fallback with at most the first 500
\* characters of the probe result.
C25_OneConsoleEmission ==
    QuietTurnOver =>
        /\ IsConsoleEmission(printed)
        /\ FirstCallName(response) = None => printed = console_prints(COULD_NOT_DETERMINE)
        /\ (FirstCallName(response) # None /\ ~ConsoleWithMessage) =>
              printed = console_prints(HERES_THE_DATA \o Take(result, 500))

\* the model's output holds no "call:" and somewhere "call", whitespace and a
\* word, as prose does
ProseCall ==
    /\ variant \in {"main", "finetuned"}
    /\ response # None
    /\ ~Contains(response, CALL_COLON)
    /\ SpacedStarts(response) # {}

\* the word W after the leftmost "call" and whitespace names no function
ProseCallUnregistered == ProseCall /\ FirstCallName(response) \notin AVAILABLE_FUNCTIONS

\* main.py's error text for a name its table lacks
UnknownFunctionError(name) == ERROR_UNKNOWN_QUOTE \o name \o <<"'">>

\* C26: the patterns are not restricted to registered names or to word
\* boundaries: an output with no "call:" but with "call", whitespace and a word
\* W is extracted as a call to W, in main.py and in main_finetuned.py; when W is
\* not registered the turn takes the functions-found path and reports the
\* unknown-function error for W, not the "no function calls detected" outcome.
C26_ProseIsACall ==
    /\ (ProseCall /\ variant = "main") =>
          /\ function_names # <<>>
          /\ function_names[1] = FirstCallName(response)
    /\ (ProseCallUnregistered /\ variant = "main" /\ pc = "prompt") =>
          /\ results[1] = [function |-> FirstCallName(response),
                           result |-> UnknownFunctionError(FirstCallName(response))]
          /\ Contains(summary, UnknownFunctionError(FirstCallName(response)))
          /\ ~Contains(summary, NO_CALLS_NOTE)
    /\ (ProseCall /\ variant = "finetuned") => func_name = FirstCallName(response)
    /\ (ProseCallUnregistered /\ variant = "finetuned" /\ pc \in {"pass2", "prompt"}) =>
          /\ result = ERROR_UNKNOWN \o FirstCallName(response)
          /\ printed # console_prints(COULD_NOT_DETERMINE)

C26_Witness ==
    /\ ProseCallUnregistered
    /\ variant = "main" /\ pc = "prompt"
    /\ response = <<"r", "e">> \o CALL_WORD \o <<"\n", " ">> \o foo \o <<".">>
    /\ function_names = <<foo>>
    /\ Contains(summary, UnknownFunctionError(foo))

C26_WitnessFineTuned ==
    /\ ProseCallUnregistered
    /\ variant = "finetuned" /\ pc = "prompt"
    /\ response = <<"r", "e">> \o CALL_WORD \o <<"\n", " ">> \o foo \o <<".">>
    /\ result = ERROR_UNKNOWN \o foo

\* the selection model's inference raised in this turn of main.py or
\* main_windows.py
SelectionRaised ==
    /\ variant \in {"main", "windows"}
    /\ \E i \in 1..Len(trace) : trace[i].op = "infer_raised"

\* the text generate_response returns when the inference raised with detail d
InferenceErrorText(v, d) == IF v = "main" THEN ERROR_GENERATING \o d ELSE ERROR_COLON \o d

\* C27: when the selection model's inference raises inside generate_response,
\* the turn returns a textual error instead of raising: the loop is back at its
\* prompt with the error text as the turn's result, no executor and no probe
\* was called, no function is reported as called, and the summarizer did not
\* run.
C27_InferenceErrorIsText ==
    SelectionRaised =>
        /\ pc = "prompt"
        /\ Len(trace) = 2 /\ trace[1].op = "infer" /\ trace[2].op = "infer_raised"
        /\ summary = InferenceErrorText(variant, trace[2].arg)
        /\ Contains(printed[1], summary)
        /\ functions_called = <<>> /\ results = <<>> /\ raw_data = <<>>
        /\ response = None

C27_Witness ==
    /\ SelectionRaised
    /\ variant = "main" /\ pc = "prompt" /\ turns = 2
    /\ summary = ERROR_GENERATING \o <<"b","o","o","m">>
    /\ printed = <<summary>>

C27_WitnessWindows ==
    /\ SelectionRaised
    /\ variant = "windows" /\ pc = "prompt"
    /\ summary = ERROR_COLON \o <<"b","o","o","m">>

\* a turn of main.py that executed functions has ended
MainTurnDone == variant = "main" /\ pc = "prompt" /\ results # <<>>

\* the summarizer was not loaded, or raised, or gave fewer than 10 characters
\* once trimmed
NoUsableSummary ==
    \/ ~gemma_model
    \/ response2 = None
    \/ Len(strip(response2)) < 10

\* what the summarizer did in the turn, as generate_friendly_message sees it
SummarizerDid ==
    IF response2 = None THEN [kind |-> "raise", text |-> <<>>]
    ELSE [kind |-> "text", text |-> response2]

GenericMessage == SYSTEM_DATA_FOR_QUERY \o user_message

\* the section main.py:369-371 writes for one executed function
ResultSection(item) ==
    FUNCTION_EXECUTED \o item.function \o NL \o RESULT_LABEL \o item.result \o NL

\* C28: summarization is best-effort in main.py: when the summarizer is
\* unavailable, raises, or gives fewer than 10 characters after trimming,
\* generate_friendly_message returns 'System data retrieved for: {query}', the
\* turn ends normally, and its summary holds the result section of every
\* executed function.
C28_SummaryIsBestEffort ==
    (MainTurnDone /\ NoUsableSummary) =>
        /\ main_generate_friendly_message(gemma_model, user_message, SummarizerDid)
              = GenericMessage
        /\ gemma_model => Contains(summary, ASSISTANT \o GenericMessage \o NL)
        /\ Len(results) = Len(Executions)
        /\ \A i \in 1..Len(results) :
              /\ results[i].function = Executions[i].arg
              /\ results[i].result = Returns[i].arg
              /\ Contains(summary, ResultSection(results[i]))
        /\ HasSections(summary, 1, function_names, ResultTexts)

\* the summarizer gave nine characters and spaces around them
C28_Witness ==
    /\ MainTurnDone /\ NoUsableSummary
    /\ gemma_model
    /\ response2 # None /\ Len(strip(response2)) = 9 /\ Len(response2) > 9
    /\ Len(results) = 2
    /\ summary = main_output(GenericMessage, results)

\* the summarizer raised
C28_WitnessRaises ==
    /\ MainTurnDone /\ NoUsableSummary
    /\ gemma_model /\ response2 = None
    /\ \E i \in 1..Len(trace) : trace[i].op = "summarize"
    /\ summary = main_output(GenericMessage, results)

\* the summarizer was not loaded
C28_WitnessUnavailable ==
    /\ MainTurnDone /\ NoUsableSummary
    /\ ~gemma_model
    /\ \A i \in 1..Len(trace) : trace[i].op # "summarize"
    /\ summary = main_output(None, results)

\* ten characters are enough
C28_WitnessTenCharacters ==
    /\ MainTurnDone /\ ~NoUsableSummary
    /\ Len(response2) = 10
    /\ summary = main_output(response2, results)

\* C29: in the loops of the three programs a line that is empty once trimmed
\* starts no inference and no probe and leaves the transcript as it is; 'exit'
\* and 'quit', in any case, end the loop without an inference; and 'help' in
\* main.py lists the functions, with no inference and the transcript as it is.
C29_LoopCommands ==
    [][turns' = turns + 1 =>
         /\ user_input' = <<>> =>
               /\ pc' = "prompt"
               /\ trace' = <<>> /\ conversation_history' = conversation_history
         /\ lower(user_input') \in {EXIT, QUIT} =>
               /\ pc' = "stopped"
               /\ trace' = <<>> /\ conversation_history' = conversation_history
         /\ (variant = "main" /\ lower(user_input') = HELP) =>
               /\ pc' = "prompt"
               /\ printed' = display_available_functions
               /\ trace' = <<>> /\ conversation_history' = conversation_history]_vars

\* a blank line after a turn that filled the transcript
C29_Witness ==
    /\ pc = "prompt" /\ turns = 2
    /\ user_input = <<>>
    /\ trace = <<>>
    /\ Len(conversation_history) = 2

C29_WitnessQuit ==
    /\ pc = "stopped"
    /\ user_input = <<"Q","U","I","T">>
    /\ trace = <<>>

C29_WitnessHelp ==
    /\ variant = "main" /\ pc = "prompt" /\ turns = 2
    /\ user_input = <<"H","e","l","p">>
    /\ printed = display_available_functions
    /\ Len(conversation_history) = 2

\* 'help' is a query like any other outside main.py
C29_WitnessHelpIsAQuery ==
    /\ variant = "windows" /\ pc = "infer"
    /\ user_input = <<"H","e","l","p">>
    /\ conversation_history = <<Entry("user", user_input)>>

----------------------------------------------------------------------------
(* Claims about run_command (SpecCommand).                                 *)

\* C16: run_command starts the command exactly once, with its timeout, and
\* returns text whatever the command does: when the command has not exited
\* within the timeout the text is "Error: Command timed out".
C16_RunCommandOnceWithTimeout ==
    pc = "returned" =>
        /\ trace = <<Event("subprocess.run", <<cmd, timeout>>)>>
        /\ timeout > 0
        /\ result # None
        /\ TimesOut(process, timeout) => result = ERROR_TIMED_OUT

C16_Witness ==
    /\ pc = "returned"
    /\ variant = "app"
    /\ timeout = app_timeout
    /\ process.kind = "exits" /\ process.seconds > timeout
    /\ result = ERROR_TIMED_OUT

C16_WitnessHangs ==
    /\ pc = "returned"
    /\ variant = "app_windows"
    /\ process = Hangs
    /\ result = ERROR_TIMED_OUT

----------------------------------------------------------------------------
(* Claims about the T5 agent (SpecAgent).                                  *)

TAKES_EXACTLY == <<" ","t","a","k","e","s"," ","e","x","a","c","t","l","y"," ","1"," ","a","r","g","u","m","e","n","t">>

\* the executor call recorded at trace[i] reached the tool
ToolInvoked(i) == i < Len(trace) /\ trace[i + 1].op = "call"
\* the tool raised in the executor call recorded at trace[i]
ToolRaised(i) == ToolInvoked(i) /\ trace[i + 2].op = "raise"
\* where the trace records what that executor call returned
ReturnIndex(i) == IF ToolInvoked(i) THEN i + 3 ELSE i + 1

\* what execute_tool(name, args) is bound to: checked on the call at trace[i]
\* that returned text
ToolCallGuarded(name, args, invoked, raised, text) ==
    /\ invoked => name \in TOOLS /\ ~Contains(args, <<",">>)
    /\ name \notin TOOLS => text = UNKNOWN_TOOL \o name /\ ~invoked
    /\ (name \in TOOLS /\ Contains(args, <<",">>)) =>
          /\ HasAt(text, 1, ERROR_COLON \o name \o TAKES_EXACTLY)
          /\ ~invoked
    /\ raised => HasAt(text, 1, ERROR_EXECUTING \o name \o <<":", " ">>)

\* C30: execute_tool never raises, and it invokes a tool only for a name that
\* is a key of TOOLS and an argument text without a comma: an unknown name
\* gives 'Unknown tool: {name}' and a text with a comma the 'takes exactly 1
\* argument' error, both with no tool invoked, and an exception of the tool
\* comes back as 'Error executing {name}: ...'.
C30_ExecuteToolGuards ==
    /\ pc = "raised" => Executions = <<>>
    /\ \A i \in 1..Len(trace) :
          trace[i].op = "execute" =>
              /\ ReturnIndex(i) <= Len(trace)
              /\ trace[ReturnIndex(i)].op = "result"
              /\ ToolCallGuarded(trace[i].arg[1], trace[i].arg[2], ToolInvoked(i),
                                 ToolRaised(i), trace[ReturnIndex(i)].arg)

\* a call with one argument and a call with two, in one answer
C30_Witness ==
    /\ variant = "t5" /\ pc = "returned"
    /\ tool_calls = <<<<Search, <<"a">>>>, <<Bash, <<"a", ",", "b">>>>>>
    /\ Len(trace) = 7
    /\ ToolInvoked(2) /\ ~ToolInvoked(6)
    /\ trace[5].arg = search_tool(<<"a">>)
    /\ result = ERROR_COLON \o Bash \o TAKES_EXACTLY \o <<",", " ", "g", "o", "t", " ", "2">>

C30_WitnessUnknown ==
    /\ variant = "t5" /\ pc = "returned"
    /\ tool_calls = <<<<foo, <<"a">>>>>>
    /\ trace[3].op = "result"
    /\ result = UNKNOWN_TOOL \o foo

C30_WitnessRaises ==
    /\ variant = "t5" /\ pc = "returned"
    /\ tool_calls = <<<<OpenFile, <<" ", "a", " ">>>>>>
    /\ ToolRaised(2)
    /\ trace[3].arg = <<OpenFile, <<"a">>>>
    /\ result = ERROR_EXECUTING \o OpenFile \o <<":", " ", "b", "o", "o", "m">>

====
